---------------------------- MODULE Spec2Model ----------------------------
(***************************************************************************)
(* Listing reconciliation engine of the supplier -> Shopify synchroniser.   *)
(*                                                                         *)
(* The persisted catalog is the `shops` array of every product document    *)
(* (one listing per storefront domain).  Listings are written only through *)
(* Product._upsert_shop_listing (core/product.py), selected by the two     *)
(* due-queries of core/products.py and driven by the creation and update   *)
(* runs of core/tasks.                                                     *)
(*                                                                         *)
(* Values.  A listing is a function from field names to values.  `status`  *)
(* and `shop` hold strings; every other field holds an integer, with NULL  *)
(* for Python's None and CLEAR for the "__clear__" sentinel.  Money is in   *)
(* integer cents.  Time is counted in units of 15 minutes, the largest     *)
(* unit in which every back-off delay of the code is a whole number.       *)
(***************************************************************************)
EXTENDS Integers, Sequences, FiniteSets, TLC

VARIABLES
    listings,   \* barcode -> persisted `shops` array of the product document
    shopdocs,   \* the domains that have a document in the shops collection
    settings,   \* domain -> the settings of the shop document
    catalog,    \* barcode -> enrichment data and supplier offers of the product document
    now,        \* datetime.utcnow(), in 15-minute units
    obj,        \* the in-memory Product object of the direct caller: its `shops` mirror
    last,       \* the latest direct upsert call and its outcome
    qres,       \* the latest due-query / gate evaluation
    runs,       \* run id -> the task run executing under that id, its worker per storefront
    remote,     \* barcode -> domain -> how many products the storefront holds for the barcode
    hist,       \* barcode -> domain -> what has happened to the pair (history)
    calls       \* caller id -> the upsert a concurrent caller is executing, write by write

envvars == <<shopdocs, settings, catalog>>

engvars == <<runs, remote, hist, calls>>

vars == <<listings, envvars, now, obj, last, qres, engvars>>

(***************************************************************************)
(* Bounds of the model                                                     *)
(***************************************************************************)
MaxTime == 1
MaxCalls == 2
MaxNow == 260
MaxErrorCount == 9
MaxOffers == 2
MaxRuns == 2
MaxRemote == 2
TickStep == 48
MaxCallers == 3
MaxRaceClock == 1
MaxClock == 48
LifeStep == 2
MaxLifeClock == 6

\* the barcodes in the natural order of the products collection, the product of the
\* one-product collections, the products of the two-product collection, and the storefront
\* domains
BarcodeSeq == <<"p1", "p2">>
Barcodes == {BarcodeSeq[1]}
BothBarcodes == {BarcodeSeq[i] : i \in 1..Len(BarcodeSeq)}
Shops == {"a.myshopify.com", "b.myshopify.com"}

(***************************************************************************)
(* Program constants                                                       *)
(***************************************************************************)
MAX_FAIL_COUNT == 3

NULL == -1
CLEAR == -2

Statuses ==
    {"create_pending", "create_processing", "create_error", "create_fail", "created",
     "update_pending", "update_processing", "update_error", "update_fail", "updated",
     "unmanaged"}

IdentifierFields ==
    {"shopify_id", "shopify_gid", "shopify_variant_id", "shopify_url", "shopify_handle"}

PricingFields ==
    {"supplier", "cost", "stock_level", "selling_price", "sku",
     "margin_used", "rounding_used", "round_to"}

GlobalDefaultFields == IdentifierFields \cup PricingFields \cup {"error_count", "message"}

\* GLOBAL_DEFAULTS: every field None, error_count 0
GLOBAL_DEFAULTS == [k \in GlobalDefaultFields |-> IF k = "error_count" THEN 0 ELSE NULL]

Required_PricingOnly(status) ==
    IF status \in {"created", "updated"} THEN PricingFields ELSE {}

\* LISTING_CONFIGS[status]["required"]
Required(status) ==
    CASE status = "created" -> IdentifierFields \cup PricingFields
      [] status = "updated" -> PricingFields
      [] OTHER -> {}

\* LISTING_CONFIGS[status].get("reset_error_count")
ResetErrorCount(status) == status \in {"created", "updated"}

\* LISTING_CONFIGS[status].get("increment_error_count")
IncrementErrorCount(status) == status \in {"create_error", "update_error"}

(***************************************************************************)
(* Names, shop settings and product documents                              *)
(***************************************************************************)

\* a name is its lower-case spelling and whether the stored spelling has capitals
Name(spelling, capitals) == [lower |-> spelling, caps |-> capitals]

\* str.lower()
Lower(name) == [name EXCEPT !.caps = FALSE]

\* None / "" where a name is expected
NoName == [lower |-> "", caps |-> FALSE]

\* Shop.DEFAULT_SETTINGS: margin and rounding in hundredths
DEFAULT_SETTINGS ==
    [exclude_suppliers |-> {}, exclude_brands |-> {},
     profit_margin |-> 150, rounding |-> 99, round_to |-> "closest"]

\* Shop.get_excluded_suppliers / get_excluded_brands: the stored entries, lower-cased
get_excluded_suppliers(cfg) == {Lower(x) : x \in cfg.exclude_suppliers}
get_excluded_brands(cfg) == {Lower(x) : x \in cfg.exclude_brands}

\* a supplier offer: doc["suppliers"][i] with its parsed price (cents), stock_level and sku
Offer(name, price, stock) == [name |-> name, price |-> price, stock_level |-> stock, sku |-> 1]

\* a fully enriched product with one offer
EnrichedProduct ==
    [title |-> TRUE, description |-> TRUE, product_type |-> TRUE,
     brand |-> Name("brand a", TRUE), manufacturer |-> NoName,
     barcode_lookup_status |-> "success", images_status |-> "success",
     ai_generate_status |-> "success",
     suppliers |-> <<Offer(Name("dummy supplier", TRUE), 2500, 100)>>]

(***************************************************************************)
(* Product._upsert_shop_listing                                            *)
(***************************************************************************)

\* next((s for s in self.product.get("shops", []) if s["shop"] == shop.domain), None):
\* the index of the first entry of the array for the domain, 0 for None
FirstIndex(arr, domain) ==
    IF \E i \in 1..Len(arr) : arr[i]["shop"] = domain
    THEN CHOOSE i \in 1..Len(arr) :
            /\ arr[i]["shop"] = domain
            /\ \A j \in 1..(i - 1) : arr[j]["shop"] # domain
    ELSE 0

\* has_shop_listing(shop, statuses): statuses = {} stands for None (any status)
has_shop_listing(arr, domain, statuses) ==
    \E i \in 1..Len(arr) :
        /\ arr[i]["shop"] = domain
        /\ (statuses = {} \/ arr[i]["status"] \in statuses)

\* listing_data.get("status"): "none" stands for None
StatusOf(patch) == IF "status" \in DOMAIN patch THEN patch["status"] ELSE "none"

\* listing_data after  listing_data["shop"] = shop.domain; listing_data["updated_at"] = now
StampedPatch(patch, domain, t) ==
    [k \in DOMAIN patch \cup {"shop", "updated_at"} |->
        IF k = "shop" THEN domain
        ELSE IF k = "updated_at" THEN t
        ELSE patch[k]]

UnknownStatus_MissingOnly(patch) == StatusOf(patch) = "none"

\* if status not in LISTING_CONFIGS: raise ValueError
UnknownStatus(patch) == StatusOf(patch) \notin Statuses

MissingRequired_SentinelAccepted(data, status) ==
    \E f \in Required(status) : f \notin DOMAIN data \/ data[f] = NULL

\* if field not in listing_data or listing_data[field] in (None, "__clear__"): raise ValueError
MissingRequired(data, status) ==
    \E f \in Required(status) : f \notin DOMAIN data \/ data[f] \in {NULL, CLEAR}

\* v == "__clear__"  (status is a validated state name and shop the domain: never the sentinel)
IsClear(k, v) == k \notin {"status", "shop"} /\ v = CLEAR

MergeListing_Replace(mirror, domain, data, t) ==
    [k \in GlobalDefaultFields \cup DOMAIN data \cup {"created_at"} |->
        IF k = "created_at" THEN t
        ELSE IF k \in DOMAIN data THEN (IF IsClear(k, data[k]) THEN NULL ELSE data[k])
        ELSE GLOBAL_DEFAULTS[k]]

\* Merge incoming data over the existing entry (or GLOBAL_DEFAULTS), then preserve created_at.
\* The per-status "defaults" of LISTING_CONFIGS are all empty.
MergeListing(mirror, domain, data, t) ==
    LET i == FirstIndex(mirror, domain)
        base == IF i > 0 THEN mirror[i] ELSE GLOBAL_DEFAULTS
        keys == DOMAIN base \cup DOMAIN data \cup {"created_at"}
    IN  [k \in keys |->
            IF k = "created_at"
            THEN IF i > 0 /\ "created_at" \in DOMAIN mirror[i] THEN mirror[i]["created_at"] ELSE t
            ELSE IF k \in DOMAIN data
                 THEN IF IsClear(k, data[k]) THEN NULL ELSE data[k]
                 ELSE base[k]]

ErrorCountAfter_NoReset(status, count) ==
    IF IncrementErrorCount(status) THEN count + 1 ELSE count

\* error_count after the reset / increment of the target status
ErrorCountAfter(status, count) ==
    IF ResetErrorCount(status) THEN 0
    ELSE IF IncrementErrorCount(status) THEN count + 1
    ELSE count

StatusAfter_NeverGivesUp(status, count) == status

\* the status stored: an increment that reaches MAX_FAIL_COUNT forces "create_fail"
StatusAfter(status, count) ==
    IF ~ResetErrorCount(status) /\ IncrementErrorCount(status) /\ count + 1 >= MAX_FAIL_COUNT
    THEN "create_fail"
    ELSE status

\* full_listing as it is written
FullListing(mirror, domain, patch, t) ==
    LET data == StampedPatch(patch, domain, t)
        merged == MergeListing(mirror, domain, data, t)
    IN  [merged EXCEPT !["error_count"] = ErrorCountAfter(data["status"], merged["error_count"]),
                       !["status"] = StatusAfter(data["status"], merged["error_count"])]

\* valid_keys
ValidKeys(status) ==
    GlobalDefaultFields \cup {"status", "shop", "created_at", "updated_at"} \cup Required(status)

UnexpectedFields_Lenient(mirror, domain, patch) == {}

\* unexpected = set(full_listing.keys()) - valid_keys
UnexpectedFields(mirror, domain, patch) ==
    LET i == FirstIndex(mirror, domain)
        base == IF i > 0 THEN DOMAIN mirror[i] ELSE GlobalDefaultFields
    IN  (base \cup DOMAIN patch \cup {"shop", "updated_at", "created_at"}) \ ValidKeys(StatusOf(patch))

\* the three raise sites before the write
UpsertRaises(mirror, domain, patch) ==
    \/ UnknownStatus(patch)
    \/ MissingRequired(patch, StatusOf(patch))
    \/ UnexpectedFields(mirror, domain, patch) # {}

SetElems_NoArrayFilter(arr, domain, full) == [i \in 1..Len(arr) |-> full]

\* {"$set": {"shops.$[elem]": full}} with array_filters elem.shop == domain
SetElems(arr, domain, full) ==
    [i \in 1..Len(arr) |-> IF arr[i]["shop"] = domain THEN full ELSE arr[i]]

\* {"$pull": {"shops": {"shop": domain}}}
PullShop(arr, domain) == SelectSeq(arr, LAMBDA e : e["shop"] # domain)

PersistListing_AlwaysPush(arr, existing, domain, full) == Append(arr, full)

\* the persisted array after the write: update in place, or delete-then-insert when the
\* update modified nothing, or push when the mirror had no entry
PersistListing(arr, existing, domain, full) ==
    IF existing
    THEN IF SetElems(arr, domain, full) # arr
         THEN SetElems(arr, domain, full)
         ELSE Append(PullShop(arr, domain), full)
    ELSE Append(arr, full)

MirrorListing_AlwaysAppend(mirror, domain, full) == Append(mirror, full)

\* the in-memory mirror after the write: replace the first entry of the domain, else append
MirrorListing(mirror, domain, full) ==
    LET i == FirstIndex(mirror, domain)
    IN  IF i > 0 THEN [mirror EXCEPT ![i] = full] ELSE Append(mirror, full)

\* the whole call: [ok, db, mirror]
Upsert(arr, mirror, domain, patch, t) ==
    IF UpsertRaises(mirror, domain, patch)
    THEN [ok |-> FALSE, db |-> arr, mirror |-> mirror]
    ELSE LET full == FullListing(mirror, domain, patch, t)
         IN  [ok |-> TRUE,
              db |-> PersistListing(arr, FirstIndex(mirror, domain) > 0, domain, full),
              mirror |-> MirrorListing(mirror, domain, full)]

\* the entries of an array for a domain
EntriesOf(arr, domain) == SelectSeq(arr, LAMBDA e : e["shop"] = domain)

(***************************************************************************)
(* Direct callers of the upsert (mark_listed_to_shop) and of the catalog   *)
(***************************************************************************)

\* the payloads callers pass
DataValues == {1, 2}

Payload(fields, status, v) ==
    [k \in fields \cup {"status"} |-> IF k = "status" THEN status ELSE v]

\* a payload with one field left out ("drop"), None (NULL) or the sentinel (CLEAR)
Damaged(p, f, how) ==
    IF how = 0 THEN [k \in DOMAIN p \ {f} |-> p[k]] ELSE [p EXCEPT ![f] = how]

StatusOnlyPatches == {[status |-> st] : st \in Statuses}

CompletePatches ==
    {Payload(Required(st), st, v) : st \in {"created", "updated"}, v \in DataValues}

DamagedPatches ==
    UNION {{Damaged(Payload(Required(st), st, 2), f, how) : f \in Required(st), how \in {0, NULL, CLEAR}}
           : st \in {"created", "updated"}}

OtherPatches ==
    {[status |-> "create_failed"],
     [message |-> 2],
     [status |-> "create_pending", retry_count |-> 1],
     [status |-> "unmanaged", message |-> 2],
     [status |-> "create_pending", created_at |-> 2],
     [status |-> "update_pending", selling_price |-> CLEAR, message |-> CLEAR]}

Patches == StatusOnlyPatches \cup CompletePatches \cup DamagedPatches \cup OtherPatches

NoCall ==
    [n |-> 0, valid |-> FALSE, ok |-> FALSE, barcode |-> "p1", shop |-> "a.myshopify.com",
     patch |-> [message |-> 2], pre |-> <<>>, preObj |-> <<>>, at |-> 0,
     repeat |-> FALSE, prevPost |-> <<>>]

NoQuery == [kind |-> "none"]

\* no task run is executing, the storefronts hold no product, nothing has happened
RunIds == 1..MaxRuns
IdleWorker ==
    [pc |-> "idle", queue |-> <<>>, pid |-> FALSE, handle |-> FALSE,
     products |-> 0, success |-> 0, failed |-> 0, skipped |-> 0]
\* parser.add_argument("--workers", type=int, default=4)
DefaultWorkers == 4

IdleRun ==
    [kind |-> "idle", dry_run |-> FALSE, max_workers |-> DefaultWorkers,
     w |-> [s \in Shops |-> IdleWorker]]
NoRuns == [r \in RunIds |-> IdleRun]
NoRemote == [b \in Barcodes |-> [s \in Shops |-> 0]]
NoHist == [b \in Barcodes |-> [s \in Shops |-> [attempts |-> 0, created |-> FALSE]]]

\* no caller is inside an upsert
CallerIds == 1..MaxCallers
IdleCall ==
    [pc |-> "idle", kind |-> "none", shop |-> "a.myshopify.com", mirror |-> <<>>,
     full |-> <<>>, step |-> 0]
NoCalls == [c \in CallerIds |-> IdleCall]

\* the storefront the direct caller acts for; the other storefront's listing is given
CallerShop == "a.myshopify.com"
OtherShop == "b.myshopify.com"

\* a listing as a completed creation flow leaves it
CreatedListing(domain, v, t) ==
    [k \in ValidKeys("created") |->
        CASE k = "status" -> "created"
          [] k = "shop" -> domain
          [] k \in {"created_at", "updated_at"} -> t
          [] k = "error_count" -> 0
          [] k = "message" -> NULL
          [] OTHER -> v]

\* product.mark_listed_to_shop(shop, patch) on the caller's Product object; a call that
\* raises leaves the collection and the object as they were and ends the caller's sequence
DirectUpsert(b, s, patch) ==
    /\ last.n < MaxCalls
    /\ LET r == Upsert(listings[b], obj[b], s, patch, now)
       IN  /\ listings' = [listings EXCEPT ![b] = r.db]
           /\ obj' = [obj EXCEPT ![b] = r.mirror]
           /\ last' = LET again == /\ last.valid /\ last.ok /\ r.ok
                                     /\ last.barcode = b /\ last.shop = s /\ last.patch = patch
                       IN  [n |-> IF r.ok THEN last.n + 1 ELSE MaxCalls,
                            valid |-> TRUE, ok |-> r.ok, barcode |-> b,
                            shop |-> s, patch |-> patch, pre |-> listings[b], preObj |-> obj[b],
                            at |-> now, repeat |-> again,
                            prevPost |-> IF again THEN listings[b] ELSE <<>>]
    /\ UNCHANGED <<envvars, engvars, now, qres>>

\* Product(barcode): the object is loaded again from the collection
Reload(b) ==
    /\ obj[b] # listings[b]
    /\ obj' = [obj EXCEPT ![b] = listings[b]]
    /\ last' = [NoCall EXCEPT !.n = last.n]
    /\ UNCHANGED <<listings, envvars, engvars, now, qres>>

\* Product.unlist_from_shop: pulls the listing from the collection, not from the object
Unlist(b, s) ==
    /\ has_shop_listing(listings[b], s, {})
    /\ listings' = [listings EXCEPT ![b] = PullShop(listings[b], s)]
    /\ last' = [NoCall EXCEPT !.n = last.n]
    /\ UNCHANGED <<envvars, engvars, obj, now, qres>>

\* time passes
Tick(max) ==
    /\ now < max
    /\ now' = now + 1
    /\ qres' = NoQuery
    /\ UNCHANGED <<listings, envvars, engvars, obj, last>>

InitUpsert ==
    /\ listings \in [Barcodes -> {<<>>, <<CreatedListing(OtherShop, 1, 0)>>}]
    /\ obj = listings
    /\ shopdocs = Shops
    /\ settings = [s \in Shops |-> DEFAULT_SETTINGS]
    /\ catalog = [b \in Barcodes |-> EnrichedProduct]
    /\ now = 0
    /\ last = NoCall
    /\ qres = NoQuery
    /\ runs = NoRuns
    /\ remote = NoRemote
    /\ hist = NoHist
    /\ calls = NoCalls

NextUpsert ==
    \/ \E b \in Barcodes, patch \in Patches : DirectUpsert(b, CallerShop, patch)
    \/ \E b \in Barcodes : Reload(b)
    \/ \E b \in Barcodes : Unlist(b, CallerShop)
    \/ Tick(MaxTime)

SpecUpsert == InitUpsert /\ [][NextUpsert]_vars

(***************************************************************************)
(* Properties of the upsert, checked under SpecUpsert                      *)
(***************************************************************************)

\* what the latest direct call saw and left
LastTarget == StatusOf(last.patch)
LastExisting == EntriesOf(last.preObj, last.shop)
LastPersisted == EntriesOf(listings[last.barcode], last.shop)

\* the patch lacks a field required by its target status, or carries it as null or as the sentinel
LacksRequiredField(patch) ==
    \E f \in Required(StatusOf(patch)) :
        \/ f \notin DOMAIN patch
        \/ patch[f] = NULL
        \/ patch[f] = CLEAR

\* C7: an upsert to `created` / `updated` whose patch lacks a required field (absent, null or
\* the clear sentinel) raises before any write: the persisted listings and the in-memory
\* mirror are what they were before the call.
C7_RequiredFieldsFailFast ==
    (last.valid /\ LastTarget \in {"created", "updated"} /\ LacksRequiredField(last.patch))
        => /\ ~last.ok
           /\ listings[last.barcode] = last.pre
           /\ obj[last.barcode] = last.preObj

\* a `created` upsert carrying selling_price as the sentinel was rejected over an existing listing
C7_Witness ==
    /\ last.valid /\ ~last.ok
    /\ LastTarget = "created"
    /\ "selling_price" \in DOMAIN last.patch /\ last.patch["selling_price"] = CLEAR
    /\ Len(EntriesOf(last.pre, last.shop)) = 1
    /\ listings[last.barcode] = last.pre

\* C16: an upsert whose patch has no status, or a status that is not one of the eleven of
\* LISTING_CONFIGS, raises before any write: the persisted listings and the in-memory mirror
\* are what they were before the call, and no listing was added for the storefront.
C16_UnknownStatusFailFast ==
    (last.valid /\ LastTarget \notin Statuses)
        => /\ ~last.ok
           /\ listings[last.barcode] = last.pre
           /\ obj[last.barcode] = last.preObj
           /\ Len(LastPersisted) = Len(EntriesOf(last.pre, last.shop))

\* an upsert to the status `create_failed`, which LISTING_CONFIGS does not have, was rejected
\* for a storefront that had no listing, and none was created
C16_Witness ==
    /\ last.valid /\ ~last.ok
    /\ LastTarget = "create_failed"
    /\ EntriesOf(last.pre, last.shop) = <<>>
    /\ LastPersisted = <<>>
    /\ obj[last.barcode] = last.preObj

\* the latest call repeated the payload of the call just before it, both to `created`
RepeatedCreated == last.valid /\ last.repeat /\ LastTarget = "created"

\* C8 as stated: the second of two identical `created` upserts leaves exactly the persisted
\* record the first one left (every field equal) with error_count 0.
C8_SameRecordAllFields ==
    RepeatedCreated
        => /\ Len(LastPersisted) = 1
           /\ LastPersisted = EntriesOf(last.prevPost, last.shop)
           /\ LastPersisted[1]["error_count"] = 0

\* C8 amended: the second of two identical `created` upserts leaves exactly one listing for the
\* pair, equal to the record the first one left in every field except updated_at, which is the
\* time of the second call; error_count stays 0.
C8_SameRecordButUpdatedAt ==
    RepeatedCreated
        => /\ Len(LastPersisted) = 1
           /\ Len(EntriesOf(last.prevPost, last.shop)) = 1
           /\ LET after == LastPersisted[1]
                  before == EntriesOf(last.prevPost, last.shop)[1]
              IN  /\ DOMAIN after = DOMAIN before
                  /\ \A k \in DOMAIN after \ {"updated_at"} : after[k] = before[k]
                  /\ after["updated_at"] = last.at
                  /\ after["error_count"] = 0

\* two identical `created` upserts, the second at a later time than the first
C8_Witness ==
    /\ RepeatedCreated
    /\ Len(LastPersisted) = 1
    /\ LastPersisted[1]["updated_at"] > EntriesOf(last.prevPost, last.shop)[1]["updated_at"]

\* error_count of the entry the call started from (0 for a listing that did not exist)
PreviousErrorCount == IF Len(LastExisting) > 0 THEN LastExisting[1]["error_count"] ELSE 0

\* C10: after an upsert to `created` / `updated` the listing's error_count is 0; after an upsert
\* to `create_error` / `update_error` it is the previous error_count plus 1 (1 for a new listing).
C10_ErrorCountResetAndIncrement ==
    (last.valid /\ last.ok)
        => /\ Len(LastPersisted) >= 1
           /\ LastTarget \in {"created", "updated"}
                => \A i \in 1..Len(LastPersisted) : LastPersisted[i]["error_count"] = 0
           /\ LastTarget \in {"create_error", "update_error"}
                => \A i \in 1..Len(LastPersisted) :
                        LastPersisted[i]["error_count"] = PreviousErrorCount + 1

\* an upsert to `updated` over a listing that had failed once
C10_Witness ==
    /\ last.valid /\ last.ok
    /\ LastTarget = "updated"
    /\ PreviousErrorCount = 1
    /\ LastPersisted[1]["error_count"] = 0

\* the record the latest call merged from: the mirror's entry for the storefront, else the defaults
LastBase == IF Len(LastExisting) > 0 THEN LastExisting[1] ELSE GLOBAL_DEFAULTS

\* the value a patch value is stored as
StoredAs(k, v) == IF k # "status" /\ v = CLEAR THEN NULL ELSE v

\* the value the merge gives field k: the patch's if the patch mentions k, else the existing one
MergedValue(k) ==
    IF k \in DOMAIN last.patch THEN StoredAs(k, last.patch[k]) ELSE LastBase[k]

C28_RequiredFieldsPresent ==
    \A b \in DOMAIN listings : \A i \in 1..Len(listings[b]) :
        LET e == listings[b][i]
        IN  /\ e["status"] = "created"
                => \A f \in IdentifierFields \cup PricingFields : e[f] \notin {NULL, CLEAR}
            /\ e["status"] = "updated"
                => \A f \in PricingFields : e[f] \notin {NULL, CLEAR}

\* a storefront's listing was stored as `updated` by a call over an existing listing
C28_Witness ==
    /\ last.valid /\ last.ok
    /\ LastTarget = "updated"
    /\ Len(LastExisting) > 0
    /\ Len(LastPersisted) = 1
    /\ LastPersisted[1]["status"] = "updated"
    /\ LastPersisted[1]["selling_price"] \in DataValues

\* the fields a listing may have
ListingSchema ==
    {"shopify_id", "shopify_gid", "shopify_variant_id", "shopify_url", "shopify_handle",
     "supplier", "cost", "stock_level", "selling_price", "sku", "margin_used", "rounding_used",
     "round_to", "error_count", "message", "status", "shop", "created_at", "updated_at"}

\* C29: an upsert whose patch carries a field outside the listing schema (such as retry_count)
\* raises before any write: the persisted listings and the in-memory mirror are what they were.
C29_UnexpectedFieldsFailFast ==
    (last.valid /\ \E k \in DOMAIN last.patch : k \notin ListingSchema)
        => /\ ~last.ok
           /\ listings[last.barcode] = last.pre
           /\ obj[last.barcode] = last.preObj

\* a create_pending patch carrying retry_count was rejected over an existing listing
C29_Witness ==
    /\ last.valid /\ ~last.ok
    /\ "retry_count" \in DOMAIN last.patch
    /\ LastTarget = "create_pending"
    /\ Len(EntriesOf(last.pre, last.shop)) = 1
    /\ listings[last.barcode] = last.pre
    /\ obj[last.barcode] = last.preObj

\* C30: after an upsert that returned, the persisted product holds exactly one listing for the
\* storefront and the mirror holds exactly one, the same record, carrying the status and the time
\* of the call; also when the in-place update matched nothing and the fallback ran.
C30_OneListingAfterUpsert ==
    (last.valid /\ last.ok)
        => /\ Len(LastPersisted) = 1
           /\ EntriesOf(obj[last.barcode], last.shop) = LastPersisted
           /\ LastPersisted[1]["updated_at"] = last.at
           /\ LastPersisted[1]["status"] \in {LastTarget, "create_fail"}
           /\ \A k \in DOMAIN last.patch \ {"status", "created_at", "error_count"} :
                    LastPersisted[1][k] = StoredAs(k, last.patch[k])

\* the mirror had the listing and the collection had lost it: the in-place update matched
\* nothing, the fallback wrote the record
C30_Witness ==
    /\ last.valid /\ last.ok
    /\ Len(LastExisting) = 1
    /\ EntriesOf(last.pre, last.shop) = <<>>
    /\ Len(LastPersisted) = 1
    /\ EntriesOf(obj[last.barcode], last.shop) = LastPersisted

(***************************************************************************)
(* The due-queries of core/products.py                                     *)
(***************************************************************************)

RECURSIVE Pow2(_)
Pow2(n) == IF n <= 0 THEN 1 ELSE 2 * Pow2(n - 1)

CreateBackoff_ExponentOffByOne(error_count) == 24 * Pow2(error_count)

\* timedelta(hours = 6 * (2 ** (error_count - 1))) in 15-minute units (2 ** -1 is 0.5)
CreateBackoff(error_count) == (24 * Pow2(error_count)) \div 2

\* timedelta(minutes = 30 * (2 ** (error_count - 1))) in 15-minute units
UpdateBackoff(error_count) == (2 * Pow2(error_count)) \div 2

UpdateMaxRetries_CreationCeiling == MAX_FAIL_COUNT

\* max_retries = MAX_FAIL_COUNT * 3
UpdateMaxRetries == MAX_FAIL_COUNT * 3

\* {"$unwind": "$shops"} over the collection: one entry per element of every shops array
RECURSIVE UnwindFrom(_, _)
UnwindFrom(coll, i) ==
    IF i > Len(BarcodeSeq) THEN <<>>
    ELSE IF BarcodeSeq[i] \notin DOMAIN coll THEN UnwindFrom(coll, i + 1)
    ELSE [j \in 1..Len(coll[BarcodeSeq[i]]) |->
            [barcode |-> BarcodeSeq[i], entry |-> coll[BarcodeSeq[i]][j]]]
         \o UnwindFrom(coll, i + 1)

Unwind(coll) == UnwindFrom(coll, 1)

\* {"$match": {"shops.status": {"$in": [...]}, "shops.error_count": {"$lt": limit}}}
MatchStage(e, statuses, limit) ==
    /\ e["status"] \in statuses
    /\ e["error_count"] # NULL
    /\ e["error_count"] < limit

\* the back-off loop of get_products_ready_for_posting: TRUE when the entry is kept
CreateBackoffElapsed(e, t) ==
    IF e["status"] = "create_pending" THEN TRUE
    ELSE /\ e["updated_at"] # NULL
         /\ ~(e["updated_at"] + CreateBackoff(e["error_count"]) > t)

\* the back-off loop of get_products_marked_for_update
UpdateBackoffElapsed(e, t) ==
    IF e["status"] = "update_pending" THEN TRUE
    ELSE /\ e["updated_at"] # NULL
         /\ ~(e["updated_at"] + UpdateBackoff(e["error_count"]) > t)

\* Product(barcode) and Shop(domain) load: Shop.__init__ raises when the shop has no document,
\* and the pair is logged and left out
Instantiates(barcode, domain, docs) == barcode \in BothBarcodes /\ domain \in docs

PairOf(x) == [barcode |-> x.barcode, shop |-> x.entry["shop"]]

MapPairs(xs) == [i \in 1..Len(xs) |-> PairOf(xs[i])]

get_products_ready_for_posting_AnyStatus(coll, docs, t) ==
    MapPairs(SelectSeq(Unwind(coll), LAMBDA x :
        /\ MatchStage(x.entry, Statuses, MAX_FAIL_COUNT)
        /\ CreateBackoffElapsed(x.entry, t)
        /\ Instantiates(x.barcode, x.entry["shop"], docs)))

\* Products.get_products_ready_for_posting: the pairs, in pipeline order
get_products_ready_for_posting(coll, docs, t) ==
    MapPairs(SelectSeq(Unwind(coll), LAMBDA x :
        /\ MatchStage(x.entry, {"create_pending", "create_error"}, MAX_FAIL_COUNT)
        /\ CreateBackoffElapsed(x.entry, t)
        /\ Instantiates(x.barcode, x.entry["shop"], docs)))

\* Products.get_products_marked_for_update: the pairs, in pipeline order
get_products_marked_for_update(coll, docs, t) ==
    MapPairs(SelectSeq(Unwind(coll), LAMBDA x :
        /\ MatchStage(x.entry, {"update_pending", "update_error"}, UpdateMaxRetries)
        /\ UpdateBackoffElapsed(x.entry, t)
        /\ Instantiates(x.barcode, x.entry["shop"], docs)))

Range(f) == {f[i] : i \in DOMAIN f}

(***************************************************************************)
(* The due-queries evaluated over stored listings                          *)
(***************************************************************************)

\* a stored listing with the given status, error_count and updated_at
StoredListing(domain, status, count, t) ==
    [CreatedListing(domain, 1, 0) EXCEPT
        !["status"] = status, !["error_count"] = count, !["updated_at"] = t]

QueryCreate ==
    /\ qres' = [kind |-> "create", at |-> now,
                pairs |-> get_products_ready_for_posting(listings, shopdocs, now)]
    /\ UNCHANGED <<listings, envvars, engvars, now, obj, last>>

QueryUpdate ==
    /\ qres' = [kind |-> "update", at |-> now,
                pairs |-> get_products_marked_for_update(listings, shopdocs, now)]
    /\ UNCHANGED <<listings, envvars, engvars, now, obj, last>>

InitDue ==
    /\ \E st \in Statuses, c \in 0..MaxErrorCount, docs \in {Shops, {OtherShop}} :
        /\ listings = [b \in Barcodes |->
                        <<StoredListing(OtherShop, "create_pending", 0, 0),
                          StoredListing(CallerShop, st, c, 0)>>]
        /\ shopdocs = docs
    /\ settings = [s \in Shops |-> DEFAULT_SETTINGS]
    /\ catalog = [b \in Barcodes |-> EnrichedProduct]
    /\ obj = [b \in Barcodes |-> <<>>]
    /\ now = 0
    /\ last = NoCall
    /\ qres = NoQuery
    /\ runs = NoRuns
    /\ remote = NoRemote
    /\ hist = NoHist
    /\ calls = NoCalls

NextDue ==
    \/ QueryCreate
    \/ QueryUpdate
    \/ Tick(MaxNow)

SpecDue == InitDue /\ [][NextDue]_vars

\* the listing of a pair that has exactly one
ListingOf(b, s) == EntriesOf(listings[b], s)[1]

\* the pairs of a product and an existing storefront that hold one listing
StoredPairs ==
    {pr \in [barcode : Barcodes, shop : shopdocs] : Len(EntriesOf(listings[pr.barcode], pr.shop)) = 1}

\* the creation back-off as the queue is specified: 6h * 2^(error_count - 1), i.e. 6h, 12h, 24h
\* for error_count 1, 2, 3 (24, 48, 96 quarter hours)
CreationDelay(count) ==
    CASE count = 1 -> 24 [] count = 2 -> 48 [] count = 3 -> 96
      [] OTHER -> IF count >= 1 THEN 6 * 4 * Pow2(count - 1) ELSE 3 * 4

\* C5: the creation due-query returns a (product, storefront) pair iff its listing is
\* create_pending or create_error with error_count < 3 and, for create_error, the back-off
\* 6h * 2^(error_count - 1) since updated_at has elapsed; create_pending is due at once and a
\* listing with error_count 3 is never returned.
C5_CreationQueue ==
    qres.kind = "create"
        => /\ \A pr \in StoredPairs :
                LET e == ListingOf(pr.barcode, pr.shop)
                IN  (pr \in Range(qres.pairs))
                        <=> /\ e["status"] \in {"create_pending", "create_error"}
                            /\ e["error_count"] < 3
                            /\ e["status"] = "create_error"
                                => qres.at >= e["updated_at"] + CreationDelay(e["error_count"])
           /\ Range(qres.pairs) \subseteq StoredPairs
           /\ \A pr \in Range(qres.pairs) : ListingOf(pr.barcode, pr.shop)["error_count"] # 3

\* a create_error listing with error_count 2 is returned exactly when its 12 hours have elapsed
C5_Witness ==
    /\ qres.kind = "create"
    /\ qres.at = 48
    /\ now = 48
    /\ \E pr \in Range(qres.pairs) :
        /\ pr.shop = CallerShop
        /\ ListingOf(pr.barcode, pr.shop)["status"] = "create_error"
        /\ ListingOf(pr.barcode, pr.shop)["error_count"] = 2

\* the update back-off as the queue is specified: 30min * 2^(error_count - 1), in quarter hours
UpdateDelay(count) == IF count >= 1 THEN 2 * Pow2(count - 1) ELSE 1

\* C6: the update due-query returns a (product, storefront) pair iff its listing is
\* update_pending or update_error with error_count < 9 and, for update_error, the back-off
\* 30min * 2^(error_count - 1) since updated_at has elapsed; update_pending is due at once.
C6_UpdateQueue ==
    qres.kind = "update"
        => /\ \A pr \in StoredPairs :
                LET e == ListingOf(pr.barcode, pr.shop)
                IN  (pr \in Range(qres.pairs))
                        <=> /\ e["status"] \in {"update_pending", "update_error"}
                            /\ e["error_count"] < 9
                            /\ e["status"] = "update_error"
                                => qres.at >= e["updated_at"] + UpdateDelay(e["error_count"])
           /\ Range(qres.pairs) \subseteq StoredPairs

\* an update_error listing with error_count 8 is returned once its 64 hours have elapsed
C6_Witness ==
    /\ qres.kind = "update"
    /\ qres.at = 256
    /\ \E pr \in Range(qres.pairs) :
        /\ pr.shop = CallerShop
        /\ ListingOf(pr.barcode, pr.shop)["status"] = "update_error"
        /\ ListingOf(pr.barcode, pr.shop)["error_count"] = 8

(***************************************************************************)
(* Eligibility and the readiness gate of core/product.py                   *)
(***************************************************************************)

\* Product.get_brand: brand or manufacturer
get_brand(doc) == IF doc.brand # NoName THEN doc.brand ELSE doc.manufacturer

\* Product.is_enriched_for_listing: all([title, description, product_type, brand or manufacturer])
is_enriched_for_listing(doc) ==
    /\ doc.title
    /\ doc.description
    /\ doc.product_type
    /\ get_brand(doc) # NoName

\* the supplier loop of is_product_eligible, from offer i on
RECURSIVE UsableSupplierFrom(_, _, _)
UsableSupplierFrom(offers, excluded, i) ==
    IF i > Len(offers) THEN FALSE
    ELSE IF Lower(offers[i].name) \in excluded THEN UsableSupplierFrom(offers, excluded, i + 1)
    ELSE IF offers[i].price > 0 THEN TRUE
    ELSE UsableSupplierFrom(offers, excluded, i + 1)

is_product_eligible_BrandAsStored(doc, cfg) ==
    IF ~(/\ doc.barcode_lookup_status = "success"
         /\ doc.images_status = "success"
         /\ doc.ai_generate_status = "success")
    THEN FALSE
    ELSE IF get_brand(doc) \in get_excluded_brands(cfg) THEN FALSE
    ELSE UsableSupplierFrom(doc.suppliers, get_excluded_suppliers(cfg), 1)

\* Product.is_product_eligible (called with a brand present: None.lower() would raise)
is_product_eligible(doc, cfg) ==
    IF ~(/\ doc.barcode_lookup_status = "success"
         /\ doc.images_status = "success"
         /\ doc.ai_generate_status = "success")
    THEN FALSE
    ELSE IF Lower(get_brand(doc)) \in get_excluded_brands(cfg) THEN FALSE
    ELSE UsableSupplierFrom(doc.suppliers, get_excluded_suppliers(cfg), 1)

is_ready_to_post_to_shopify_FailNotBlocking(doc, cfg, mirror, domain) ==
    IF ~is_enriched_for_listing(doc) THEN FALSE
    ELSE IF ~is_product_eligible(doc, cfg) THEN FALSE
    ELSE IF has_shop_listing(mirror, domain, {"created"}) THEN FALSE
    ELSE IF has_shop_listing(mirror, domain, {"create_processing"}) THEN FALSE
    ELSE IF has_shop_listing(mirror, domain, {"unmanaged"}) THEN FALSE
    ELSE TRUE

\* Product.is_ready_to_post_to_shopify: the first component of the returned tuple
is_ready_to_post_to_shopify(doc, cfg, mirror, domain) ==
    IF ~is_enriched_for_listing(doc) THEN FALSE
    ELSE IF ~is_product_eligible(doc, cfg) THEN FALSE
    ELSE IF has_shop_listing(mirror, domain, {"created"}) THEN FALSE
    ELSE IF has_shop_listing(mirror, domain, {"create_processing"}) THEN FALSE
    ELSE IF has_shop_listing(mirror, domain, {"create_fail"}) THEN FALSE
    ELSE IF has_shop_listing(mirror, domain, {"unmanaged"}) THEN FALSE
    ELSE TRUE

\* scripts/test_create_shopify_product.py: load the product and the shop, ask the gate
CheckReady(b, s) ==
    /\ s \in shopdocs
    /\ qres' = [kind |-> "gate", barcode |-> b, shop |-> s,
                ready |-> is_ready_to_post_to_shopify(catalog[b], settings[s], listings[b], s)]
    /\ UNCHANGED <<listings, envvars, engvars, now, obj, last>>

\* product documents and shop settings the gate is asked about
BrandA == Name("brand a", TRUE)
BrandB == Name("brand b", FALSE)
DummySupplier == Name("dummy supplier", TRUE)
TropicanaSupplier == Name("tropicana wholesale", TRUE)

OfferChoices == {Offer(DummySupplier, 2500, 100), Offer(TropicanaSupplier, 0, 5)}

OfferSeqs == UNION {[1..n -> OfferChoices] : n \in 0..MaxOffers}

ProductDocs ==
    [title : BOOLEAN, description : BOOLEAN, product_type : BOOLEAN,
     brand : {NoName, BrandA}, manufacturer : {NoName, BrandB},
     barcode_lookup_status : {"success", "pending"}, images_status : {"success", "failed"},
     ai_generate_status : {"success", "pending"},
     suppliers : OfferSeqs]

ShopSettings ==
    {[DEFAULT_SETTINGS EXCEPT !.exclude_brands = eb, !.exclude_suppliers = es] :
        eb \in {{}, {BrandA}}, es \in {{}, {DummySupplier}}}

InitGate ==
    /\ \E d \in ProductDocs, cfg \in ShopSettings, st \in Statuses \cup {"none"} :
        /\ catalog = [b \in Barcodes |-> d]
        /\ settings = [s \in Shops |-> IF s = CallerShop THEN cfg ELSE DEFAULT_SETTINGS]
        /\ listings = [b \in Barcodes |->
                        IF st = "none" THEN <<StoredListing(OtherShop, "created", 0, 0)>>
                        ELSE <<StoredListing(OtherShop, "created", 0, 0),
                               StoredListing(CallerShop, st, 0, 0)>>]
    /\ obj = listings
    /\ shopdocs = Shops
    /\ now = 0
    /\ last = NoCall
    /\ qres = NoQuery
    /\ runs = NoRuns
    /\ remote = NoRemote
    /\ hist = NoHist
    /\ calls = NoCalls

NextGate == \E b \in Barcodes : CheckReady(b, CallerShop)

SpecGate == InitGate /\ [][NextGate]_vars

\* enriched enough to list: title, description, product category and a brand (or manufacturer)
EnrichedEnough(doc) ==
    /\ doc.title /\ doc.description /\ doc.product_type
    /\ (doc.brand # NoName \/ doc.manufacturer # NoName)

\* eligible for the storefront: the three pipelines succeeded, the brand is not excluded and
\* some offer of a supplier that is not excluded has a positive price (names compared
\* case-insensitively)
EligibleFor(doc, cfg) ==
    /\ {doc.barcode_lookup_status, doc.ai_generate_status, doc.images_status} = {"success"}
    /\ ~\E x \in cfg.exclude_brands :
            x.lower = (IF doc.brand # NoName THEN doc.brand ELSE doc.manufacturer).lower
    /\ \E i \in 1..Len(doc.suppliers) :
        /\ doc.suppliers[i].price > 0
        /\ ~\E x \in cfg.exclude_suppliers : x.lower = doc.suppliers[i].name.lower

\* C9: the readiness gate answers true iff the product is enriched, eligible for the shop and
\* has no listing for the shop in created, create_processing, create_fail or unmanaged.
C9_ReadinessGate ==
    qres.kind = "gate"
        => (qres.ready
                <=> /\ EnrichedEnough(catalog[qres.barcode])
                    /\ EligibleFor(catalog[qres.barcode], settings[qres.shop])
                    /\ ~\E i \in 1..Len(listings[qres.barcode]) :
                            /\ listings[qres.barcode][i]["shop"] = qres.shop
                            /\ listings[qres.barcode][i]["status"]
                                    \in {"created", "create_processing", "create_fail", "unmanaged"})

\* an enriched, eligible product with a `created` listing for the shop is reported not ready
C9_Witness ==
    /\ qres.kind = "gate"
    /\ ~qres.ready
    /\ EnrichedEnough(catalog[qres.barcode])
    /\ EligibleFor(catalog[qres.barcode], settings[qres.shop])
    /\ Len(EntriesOf(listings[qres.barcode], qres.shop)) = 1
    /\ ListingOf(qres.barcode, qres.shop)["status"] = "created"

(***************************************************************************)
(* Supplier choice and selling price of core/product.py                    *)
(***************************************************************************)

\* the offers get_best_supplier_for_shop keeps: `name in excluded` compares the stored
\* name with the lower-cased exclusions, then `price and price > 0`
Candidates(doc, cfg, inStock) ==
    {i \in 1..Len(doc.suppliers) :
        /\ doc.suppliers[i].name \notin get_excluded_suppliers(cfg)
        /\ doc.suppliers[i].price > 0
        /\ (doc.suppliers[i].stock_level > 0) = inStock}

\* min(offers, key = price): the first offer of the lowest price, 0 for None
MinByPrice(doc, idx) ==
    IF idx = {} THEN 0
    ELSE CHOOSE i \in idx :
            \A j \in idx :
                \/ doc.suppliers[i].price < doc.suppliers[j].price
                \/ (doc.suppliers[i].price = doc.suppliers[j].price /\ i <= j)

\* Product.get_best_supplier_for_shop: the index of the offer, 0 for None
get_best_supplier_for_shop(doc, cfg) ==
    IF MinByPrice(doc, Candidates(doc, cfg, TRUE)) # 0
    THEN MinByPrice(doc, Candidates(doc, cfg, TRUE))
    ELSE MinByPrice(doc, Candidates(doc, cfg, FALSE))

\* ceil, floor and round (half to even) of n / d
Floor(n, d) == n \div d
Ceil(n, d) == IF n % d = 0 THEN n \div d ELSE (n \div d) + 1
Round(n, d) ==
    IF 2 * (n % d) < d THEN n \div d
    ELSE IF 2 * (n % d) > d THEN (n \div d) + 1
    ELSE IF (n \div d) % 2 = 0 THEN n \div d
    ELSE (n \div d) + 1

\* Product.get_selling_price_for_shop in cents, NULL for None; price in cents, margin and
\* rounding in hundredths, so price * margin is in 1/10000
get_selling_price_for_shop(doc, cfg) ==
    IF get_best_supplier_for_shop(doc, cfg) = 0 THEN NULL
    ELSE LET base == doc.suppliers[get_best_supplier_for_shop(doc, cfg)].price * cfg.profit_margin
         IN  IF cfg.rounding # 0
             THEN CASE cfg.round_to = "up" -> 100 * Ceil(base, 10000) + cfg.rounding - 100
                    [] cfg.round_to = "down" -> 100 * Floor(base, 10000) + cfg.rounding - 100
                    [] OTHER -> 100 * Round(base, 10000) + cfg.rounding - 100
             ELSE Round(base, 100)

\* the values a listing stores for a supplier name and for round_to
SupplierId(name) == IF name.lower = "dummy supplier" THEN 1 ELSE 2
RoundToId(round_to) == CASE round_to = "up" -> 1 [] round_to = "down" -> 2 [] OTHER -> 0

\* the pricing part of the payloads of create_on_shopify and update_on_shopify
PricingPatch(doc, cfg, status) ==
    LET best == doc.suppliers[get_best_supplier_for_shop(doc, cfg)]
    IN  [status |-> status,
         supplier |-> SupplierId(best.name),
         cost |-> best.price,
         stock_level |-> best.stock_level,
         selling_price |-> get_selling_price_for_shop(doc, cfg),
         sku |-> best.sku,
         margin_used |-> cfg.profit_margin,
         rounding_used |-> cfg.rounding,
         round_to |-> RoundToId(cfg.round_to)]

\* the payload of the `created` upsert: the remote ids, the url (None without a handle) and
\* the pricing
CreatedPatch(doc, cfg, handle) ==
    LET pricing == PricingPatch(doc, cfg, "created")
    IN  [k \in DOMAIN pricing \cup IdentifierFields |->
            IF k \in DOMAIN pricing THEN pricing[k]
            ELSE IF k \in {"shopify_url", "shopify_handle"} /\ ~handle THEN NULL
            ELSE 1]

\* generate_shopify_payload returns a payload only for an enriched, eligible product
PayloadGenerated(doc, cfg) == is_enriched_for_listing(doc) /\ is_product_eligible(doc, cfg)

(***************************************************************************)
(* The supplier choice, the selling price and the eligibility as functions *)
(* of the offers and of the shop's settings                                *)
(***************************************************************************)

\* a supplier whose stored name has no capital letter
AcmeSupplier == Name("acme", FALSE)

\* offers of the two suppliers: no price, or one of two prices with or without stock
OfferPool ==
    {Offer(n, 0, 0) : n \in {DummySupplier, AcmeSupplier}}
    \cup {Offer(n, p, k) : n \in {DummySupplier, AcmeSupplier}, p \in {2243, 2500}, k \in {0, 100}}

OfferPoolSeqs == UNION {[1..n -> OfferPool] : n \in 0..MaxOffers}

\* the exclusions a shop stores, and its pricing policies
ExclusionSets == SUBSET {DummySupplier, AcmeSupplier}

PricingSettings ==
    {[DEFAULT_SETTINGS EXCEPT !.exclude_suppliers = es, !.profit_margin = m,
                              !.rounding = r, !.round_to = rt] :
        es \in ExclusionSets, m \in {100, 150}, r \in {0, 99}, rt \in {"up", "down", "closest"}}

EligibilitySettings ==
    {[DEFAULT_SETTINGS EXCEPT !.exclude_suppliers = es, !.exclude_brands = eb] :
        es \in ExclusionSets, eb \in {{}, {BrandA}}}

\* the enrichment statuses: all three succeeded, or one of them did not
StatusPatterns ==
    {[barcode_lookup_status |-> "success", images_status |-> "success", ai_generate_status |-> "success"],
     [barcode_lookup_status |-> "pending", images_status |-> "success", ai_generate_status |-> "success"],
     [barcode_lookup_status |-> "success", images_status |-> "failed", ai_generate_status |-> "success"],
     [barcode_lookup_status |-> "success", images_status |-> "success", ai_generate_status |-> "pending"]}

\* an enriched product (every caller of is_product_eligible has checked
\* is_enriched_for_listing, so a brand or a manufacturer is present)
OfferedProduct(offers, brand, st) ==
    [title |-> TRUE, description |-> TRUE, product_type |-> TRUE,
     brand |-> brand, manufacturer |-> BrandB,
     barcode_lookup_status |-> st.barcode_lookup_status, images_status |-> st.images_status,
     ai_generate_status |-> st.ai_generate_status,
     suppliers |-> offers]

\* product.get_best_supplier_for_shop(shop), as flag_products_to_create.py and the flows call it
CheckBest(b, s) ==
    /\ s \in shopdocs
    /\ qres' = [kind |-> "best", barcode |-> b, shop |-> s,
                best |-> get_best_supplier_for_shop(catalog[b], settings[s])]
    /\ UNCHANGED <<listings, envvars, engvars, now, obj, last>>

\* product.get_selling_price_for_shop(shop)
CheckPrice(b, s) ==
    /\ s \in shopdocs
    /\ qres' = [kind |-> "price", barcode |-> b, shop |-> s,
                price |-> get_selling_price_for_shop(catalog[b], settings[s])]
    /\ UNCHANGED <<listings, envvars, engvars, now, obj, last>>

\* scripts/test_generate_listing.py: is_enriched_for_listing, then is_product_eligible
CheckEligible(b, s) ==
    /\ s \in shopdocs
    /\ is_enriched_for_listing(catalog[b])
    /\ qres' = [kind |-> "eligible", barcode |-> b, shop |-> s,
                eligible |-> is_product_eligible(catalog[b], settings[s])]
    /\ UNCHANGED <<listings, envvars, engvars, now, obj, last>>

InitOffers ==
    /\ \E offers \in OfferPoolSeqs :
        \/ \E cfg \in PricingSettings :
            /\ catalog = [b \in Barcodes |-> OfferedProduct(offers, BrandA, CHOOSE st \in StatusPatterns :
                                                \A k \in DOMAIN st : st[k] = "success")]
            /\ settings = [s \in Shops |-> IF s = CallerShop THEN cfg ELSE DEFAULT_SETTINGS]
        \/ \E cfg \in EligibilitySettings, brand \in {NoName, BrandA}, st \in StatusPatterns :
            /\ catalog = [b \in Barcodes |-> OfferedProduct(offers, brand, st)]
            /\ settings = [s \in Shops |-> IF s = CallerShop THEN cfg ELSE DEFAULT_SETTINGS]
    /\ listings = [b \in Barcodes |-> <<>>]
    /\ obj = listings
    /\ shopdocs = Shops
    /\ now = 0
    /\ last = NoCall
    /\ qres = NoQuery
    /\ runs = NoRuns
    /\ remote = NoRemote
    /\ hist = NoHist
    /\ calls = NoCalls

NextOffers ==
    \E b \in Barcodes :
        \/ CheckBest(b, CallerShop)
        \/ CheckPrice(b, CallerShop)
        \/ CheckEligible(b, CallerShop)

SpecOffers == InitOffers /\ [][NextOffers]_vars

\* best-supplier prices in cents, margins and roundings in hundredths, of a storefront policy
\* with profit_margin > 0 and rounding in [0, 1)
SmallPrices == {1, 40, 50, 99, 100, 150, 2243}
Margins == {30, 100, 150}
Roundings == {0, 1, 50, 99}

PolicySettings ==
    {[DEFAULT_SETTINGS EXCEPT !.profit_margin = m, !.rounding = r, !.round_to = rt] :
        m \in Margins, r \in Roundings, rt \in {"up", "down", "closest"}}

\* a product with one priced offer in stock, a storefront with one of the policies
InitPrice ==
    /\ \E p \in SmallPrices, cfg \in PolicySettings :
        /\ catalog = [b \in Barcodes |->
                        OfferedProduct(<<Offer(DummySupplier, p, 100)>>, BrandA,
                                       CHOOSE st \in StatusPatterns :
                                            \A k \in DOMAIN st : st[k] = "success")]
        /\ settings = [s \in Shops |-> IF s = CallerShop THEN cfg ELSE DEFAULT_SETTINGS]
    /\ listings = [b \in Barcodes |-> <<>>]
    /\ obj = listings
    /\ shopdocs = Shops
    /\ now = 0
    /\ last = NoCall
    /\ qres = NoQuery
    /\ runs = NoRuns
    /\ remote = NoRemote
    /\ hist = NoHist
    /\ calls = NoCalls

NextPrice == \E b \in Barcodes : CheckPrice(b, CallerShop)

SpecPrice == InitPrice /\ [][NextPrice]_vars

\* C37: for a best-supplier price above zero, a profit margin above zero, any rounding in
\* [0, 1) and any round_to, the selling price returned is strictly positive.
C37_SellingPricePositive ==
    (/\ qres.kind = "price"
     /\ catalog[qres.barcode].suppliers[1].price > 0
     /\ settings[qres.shop].profit_margin > 0
     /\ settings[qres.shop].rounding \in 0..99)
        => qres.price > 0

\* the offers of the product the last question was about, and the shop's settings
AskedOffers == catalog[qres.barcode].suppliers
AskedSettings == settings[qres.shop]

\* a supplier name matches an entry of the shop's exclusions whatever the capitals
ExcludedSupplier(name, cfg) == \E x \in cfg.exclude_suppliers : Lower(x) = Lower(name)

\* the offers a choice may come from: supplier not excluded, price above zero, stock as asked
Admissible(offers, cfg, inStock) ==
    {i \in 1..Len(offers) :
        /\ ~ExcludedSupplier(offers[i].name, cfg)
        /\ offers[i].price > 0
        /\ (offers[i].stock_level > 0) = inStock}

\* i is a cheapest offer of idx
Cheapest(offers, idx, i) == i \in idx /\ \A j \in idx : offers[i].price <= offers[j].price

\* C12: the answer of get_best_supplier_for_shop is a cheapest offer among the non-excluded
\* offers with a price and stock if there is one, else a cheapest among the non-excluded
\* offers with a price and no stock, else None
C12_BestSupplierChoice ==
    qres.kind = "best" =>
        IF Admissible(AskedOffers, AskedSettings, TRUE) # {}
        THEN Cheapest(AskedOffers, Admissible(AskedOffers, AskedSettings, TRUE), qres.best)
        ELSE IF Admissible(AskedOffers, AskedSettings, FALSE) # {}
        THEN Cheapest(AskedOffers, Admissible(AskedOffers, AskedSettings, FALSE), qres.best)
        ELSE qres.best = 0

\* C13: the offer get_best_supplier_for_shop returns is never one of a supplier whose name
\* matches, whatever the capitals, an entry of the shop's excluded suppliers
C13_ExcludedSupplierNeverChosen ==
    (qres.kind = "best" /\ qres.best # 0) =>
        ~ExcludedSupplier(AskedOffers[qres.best].name, AskedSettings)

\* C14: a supplier price of 22.43 with margin 1.0, rounding 0.99 and round_to "closest"
\* gives the selling price 22.99
C14_ClosestExample ==
    (/\ qres.kind = "price"
     /\ get_best_supplier_for_shop(catalog[qres.barcode], AskedSettings) # 0
     /\ AskedOffers[get_best_supplier_for_shop(catalog[qres.barcode], AskedSettings)].price = 2243
     /\ AskedSettings.profit_margin = 100
     /\ AskedSettings.rounding = 99
     /\ AskedSettings.round_to = "closest")
    => qres.price = 2299

LoadProduct(b) == [barcode |-> b, mirror |-> listings[b], doc |-> catalog[b]]

\* shop_to_products[domain]: the products of the selected pairs of a storefront, in order
QueueOf(pairs, s) ==
    LET mine == SelectSeq(pairs, LAMBDA x : x.shop = s)
    IN  [i \in 1..Len(mine) |-> LoadProduct(mine[i].barcode)]

\* executor.submit(_process_shop_products, ...) for every storefront that has pairs
SubmittedWorker(pairs, s) ==
    IF QueueOf(pairs, s) = <<>> THEN IdleWorker
    ELSE [IdleWorker EXCEPT !.pc = "prepare", !.queue = QueueOf(pairs, s),
                            !.products = Len(QueueOf(pairs, s))]

\* a task is started under the first free run id (each task is its own process: nothing
\* keeps two from running at once, `overlap` says whether the operator lets a task start
\* while a task of the same kind is still running)
StartRunWith(r, kind, dry, overlap, workers) ==
    /\ runs[r].kind = "idle"
    /\ \A q \in 1..(r - 1) : runs[q].kind # "idle"
    /\ overlap \/ \A q \in RunIds : runs[q].kind # kind
    /\ LET pairs == IF kind = "create"
                    THEN get_products_ready_for_posting(listings, shopdocs, now)
                    ELSE get_products_marked_for_update(listings, shopdocs, now)
       IN  runs' = [runs EXCEPT ![r] =
                        [kind |-> kind, dry_run |-> dry, max_workers |-> workers,
                         w |-> [s \in Shops |-> SubmittedWorker(pairs, s)]]]
    /\ UNCHANGED <<listings, envvars, now, obj, last, qres, calls, remote, hist>>

\* the task started from its command line without --workers
StartRun(r, kind, dry, overlap) == StartRunWith(r, kind, dry, overlap, DefaultWorkers)

\* the worker functions of the run that a thread of the pool is executing
RunningWorkers(run) ==
    {s \in Shops : run.w[s].pc \in {"loop", "remote", "enrich", "failed", "cleanup", "update"}}

PoolHasRoom_Unbounded(run) == TRUE

\* ThreadPoolExecutor(max_workers=max_workers): a submitted worker function starts when
\* fewer than max_workers of them are being executed
PoolHasRoom(run) == Cardinality(RunningWorkers(run)) < run.max_workers

Advance_AbortOnFailure(w, result) ==
    [w EXCEPT !.pc = IF Len(w.queue) > 1 /\ result # "failed" THEN "loop" ELSE "done",
              !.queue = IF result = "failed" THEN <<>> ELSE Tail(w.queue),
              !.pid = FALSE, !.handle = FALSE,
              !.success = IF result = "success" THEN @ + 1 ELSE @,
              !.failed = IF result = "failed" THEN @ + 1 ELSE @,
              !.skipped = IF result = "skipped" THEN @ + 1 ELSE @]

\* the worker counts the product (success += 1, failed += 1 or skipped += 1) and moves on to
\* the next product of its list, or returns its three counts
Advance(w, result) ==
    [w EXCEPT !.pc = IF Len(w.queue) > 1 THEN "loop" ELSE "done",
              !.queue = Tail(w.queue), !.pid = FALSE, !.handle = FALSE,
              !.success = IF result = "success" THEN @ + 1 ELSE @,
              !.failed = IF result = "failed" THEN @ + 1 ELSE @,
              !.skipped = IF result = "skipped" THEN @ + 1 ELSE @]

\* shop.prepare_for_product_actions and the collection preflight: only ShopNotReadyError is
\* caught (the worker returns skipped = len(products)); any other exception leaves the
\* worker function, its future holds the exception
Prepare(r, s, outcome) ==
    /\ runs[r].w[s].pc = "prepare"
    /\ PoolHasRoom(runs[r])
    /\ runs' = [runs EXCEPT ![r].w[s] =
                    IF outcome = "ready" THEN [@ EXCEPT !.pc = "loop"]
                    ELSE IF outcome = "not_ready"
                    THEN [@ EXCEPT !.pc = "done", !.queue = <<>>,
                                   !.skipped = runs[r].w[s].products]
                    ELSE [@ EXCEPT !.pc = "raised", !.queue = <<>>]]
    /\ UNCHANGED <<listings, envvars, now, obj, last, qres, calls, remote, hist>>

SkipDryRun_MarksProcessing(r, s) ==
    /\ runs[r].w[s].pc = "loop"
    /\ runs[r].dry_run
    /\ listings' = [listings EXCEPT ![runs[r].w[s].queue[1].barcode] =
                        Upsert(@, runs[r].w[s].queue[1].mirror, s,
                               [status |-> IF runs[r].kind = "create" THEN "create_processing"
                                           ELSE "update_processing"], now).db]
    /\ runs' = [runs EXCEPT ![r].w[s] = Advance(@, "skipped")]
    /\ UNCHANGED <<envvars, now, obj, last, qres, calls, remote, hist>>

\* `if dry_run: skipped += 1; continue`
SkipDryRun(r, s) ==
    /\ runs[r].w[s].pc = "loop"
    /\ runs[r].dry_run
    /\ runs' = [runs EXCEPT ![r].w[s] = Advance(@, "skipped")]
    /\ UNCHANGED <<listings, envvars, now, obj, last, qres, calls, remote, hist>>

\* the first statement of create_on_shopify / update_on_shopify: the listing is marked
\* create_processing / update_processing through the product object of the pair
BeginFlow(r, s) ==
    /\ runs[r].w[s].pc = "loop"
    /\ ~runs[r].dry_run
    /\ LET p == runs[r].w[s].queue[1]
           u == Upsert(listings[p.barcode], p.mirror, s,
                       [status |-> IF runs[r].kind = "create" THEN "create_processing"
                                   ELSE "update_processing"], now)
       IN  /\ listings' = [listings EXCEPT ![p.barcode] = u.db]
           /\ runs' = [runs EXCEPT ![r].w[s] =
                        IF u.ok
                        THEN [@ EXCEPT !.pc = IF runs[r].kind = "create" THEN "remote" ELSE "update",
                                       !.queue[1].mirror = u.mirror]
                        ELSE Advance(@, "failed")]
           /\ hist' = IF runs[r].kind = "create"
                      THEN [hist EXCEPT ![p.barcode][s].attempts = @ + 1]
                      ELSE hist
    /\ UNCHANGED <<envvars, now, obj, last, qres, calls, remote>>

\* create_base_product_on_shopify: without a payload nothing is sent; otherwise
\* client.create_product is called and either raises ("rejected"), or creates the product and
\* the ids are returned ("created", "created_no_handle"), or creates it and the variant
\* lookup raises before product_id is assigned ("created_no_variant")
RemoteCreate(r, s, outcome) ==
    /\ runs[r].w[s].pc = "remote"
    /\ LET p == runs[r].w[s].queue[1]
           sent == PayloadGenerated(p.doc, settings[s])
           made == sent /\ outcome # "rejected"
           back == sent /\ outcome \in {"created", "created_no_handle"}
       IN  /\ made => remote[p.barcode][s] < MaxRemote
           /\ remote' = [remote EXCEPT ![p.barcode][s] = IF made THEN @ + 1 ELSE @]
           /\ runs' = [runs EXCEPT ![r].w[s] =
                        [@ EXCEPT !.pc = IF back THEN "enrich" ELSE "failed",
                                  !.pid = back,
                                  !.handle = back /\ outcome = "created"]]
    /\ UNCHANGED <<listings, envvars, now, obj, last, qres, calls, hist>>

\* the rest of the try block of create_on_shopify: variant, inventory, images and
\* collections (any of them may raise), then the `created` upsert, which raises when a
\* required field is None
FinishCreate(r, s, outcome) ==
    /\ runs[r].w[s].pc = "enrich"
    /\ LET p == runs[r].w[s].queue[1]
           w == runs[r].w[s]
       IN  IF outcome = "raises" \/ get_best_supplier_for_shop(p.doc, settings[s]) = 0
           THEN /\ runs' = [runs EXCEPT ![r].w[s].pc = "failed"]
                /\ UNCHANGED <<listings, hist>>
           ELSE LET u == Upsert(listings[p.barcode], p.mirror, s,
                                CreatedPatch(p.doc, settings[s], w.handle), now)
                IN  /\ listings' = [listings EXCEPT ![p.barcode] = u.db]
                    /\ runs' = [runs EXCEPT ![r].w[s] =
                                    IF u.ok THEN Advance(@, "success") ELSE [@ EXCEPT !.pc = "failed"]]
                    /\ hist' = IF u.ok
                               THEN [hist EXCEPT ![p.barcode][s] =
                                        [attempts |-> 0, created |-> TRUE]]
                               ELSE hist
    /\ UNCHANGED <<envvars, now, obj, last, qres, calls, remote>>

\* the except block of create_on_shopify, first statement: the listing is marked
\* create_error; cleanup follows only when product_id was assigned
MarkCreateError(r, s) ==
    /\ runs[r].w[s].pc = "failed"
    /\ LET p == runs[r].w[s].queue[1]
           u == Upsert(listings[p.barcode], p.mirror, s, [status |-> "create_error"], now)
       IN  /\ listings' = [listings EXCEPT ![p.barcode] = u.db]
           /\ runs' = [runs EXCEPT ![r].w[s] =
                        IF u.ok /\ @.pid
                        THEN [@ EXCEPT !.pc = "cleanup", !.queue[1].mirror = u.mirror]
                        ELSE Advance(@, "failed")]
    /\ UNCHANGED <<envvars, now, obj, last, qres, calls, remote, hist>>

\* shop.client.delete_product_rest(product_id): returns False instead of raising
Cleanup(r, s, deleted) ==
    /\ runs[r].w[s].pc = "cleanup"
    /\ LET p == runs[r].w[s].queue[1]
       IN  remote' = [remote EXCEPT ![p.barcode][s] = IF deleted THEN @ - 1 ELSE @]
    /\ runs' = [runs EXCEPT ![r].w[s] = Advance(@, "failed")]
    /\ UNCHANGED <<listings, envvars, now, obj, last, qres, calls, hist>>

\* the try block of update_on_shopify after the update_processing mark: the ids of the
\* object's entry, the remote variant and inventory calls, then the `updated` upsert; any
\* exception marks the listing update_error
UpdateFlow(r, s, outcome) ==
    /\ runs[r].w[s].pc = "update"
    /\ LET p == runs[r].w[s].queue[1]
           i == FirstIndex(p.mirror, s)
           raises == \/ outcome = "raises"
                     \/ i = 0
                     \/ p.mirror[i]["shopify_gid"] = NULL
                     \/ p.mirror[i]["shopify_variant_id"] = NULL
                     \/ get_best_supplier_for_shop(p.doc, settings[s]) = 0
           done == IF raises THEN [ok |-> FALSE, db |-> listings[p.barcode], mirror |-> p.mirror]
                   ELSE Upsert(listings[p.barcode], p.mirror, s,
                               PricingPatch(p.doc, settings[s], "updated"), now)
           u == IF done.ok THEN done
                ELSE Upsert(listings[p.barcode], p.mirror, s, [status |-> "update_error"], now)
       IN  /\ listings' = [listings EXCEPT ![p.barcode] = u.db]
           /\ runs' = [runs EXCEPT ![r].w[s] = Advance(@, IF done.ok THEN "success" ELSE "failed")]
    /\ UNCHANGED <<envvars, now, obj, last, qres, calls, remote, hist>>

\* the as_completed loop of the coordinator over the futures of ws: a result adds its
\* three counts, a future that holds an exception adds one to failed
RECURSIVE Aggregate(_, _)
Aggregate(w, ws) ==
    IF ws = {} THEN [success |-> 0, failed |-> 0, skipped |-> 0]
    ELSE LET s == CHOOSE x \in ws : TRUE
             rest == Aggregate(w, ws \ {s})
         IN  IF w[s].pc = "raised"
             THEN [rest EXCEPT !.failed = @ + 1]
             ELSE [success |-> rest.success + w[s].success,
                   failed |-> rest.failed + w[s].failed,
                   skipped |-> rest.skipped + w[s].skipped]

\* the storefronts a worker was submitted for
Submitted(run) == {s \in Shops : run.w[s].pc # "idle"}

\* as_completed(futures) has returned every worker's result: log_task_end
FinishRun(r) ==
    /\ runs[r].kind # "idle"
    /\ \A s \in Shops : runs[r].w[s].pc \in {"idle", "done", "raised"}
    /\ runs' = [runs EXCEPT ![r] = IdleRun]
    /\ UNCHANGED <<listings, envvars, now, obj, last, qres, calls, remote, hist>>

(***************************************************************************)
(* core/tasks/update_supplier_data.py and core/tasks/retry_failed_listings.py *)
(***************************************************************************)

MarkUpdatePending_FirstOnly(arr) ==
    [i \in 1..Len(arr) |->
        IF arr[i]["status"] \in {"created", "updated"}
           /\ \A j \in 1..(i - 1) : arr[j]["status"] \notin {"created", "updated"}
        THEN [arr[i] EXCEPT !["status"] = "update_pending"]
        ELSE arr[i]]

\* {"$set": {"shops.$[elem].status": "update_pending"}} with
\* array_filters elem.status in [created, updated]
MarkUpdatePending(arr) ==
    [i \in 1..Len(arr) |->
        IF arr[i]["status"] \in {"created", "updated"}
        THEN [arr[i] EXCEPT !["status"] = "update_pending"]
        ELSE arr[i]]

\* the find() of update_supplier_data: enriched products that carry the supplier's name
InSupplierQuery(doc, name) ==
    /\ doc.barcode_lookup_status = "success"
    /\ doc.images_status = "success"
    /\ doc.ai_generate_status = "success"
    /\ \E i \in 1..Len(doc.suppliers) : doc.suppliers[i].name = name

\* Product.update_supplier_entry: the first entry of the name takes the feed's parsed values
update_supplier_entry(doc, name, feed) ==
    LET i == CHOOSE i \in 1..Len(doc.suppliers) :
                /\ doc.suppliers[i].name = name
                /\ \A j \in 1..(i - 1) : doc.suppliers[j].name # name
    IN  [doc EXCEPT !.suppliers[i] = feed]

\* Product.prune_supplier_link
prune_supplier_link(doc, name) ==
    [doc EXCEPT !.suppliers = SelectSeq(doc.suppliers, LAMBDA o : o.name # name)]

\* the feed has the barcode: a changed entry is stored and the product's created / updated
\* listings are flagged for update
SupplierRefresh(b, feed) ==
    /\ InSupplierQuery(catalog[b], feed.name)
    /\ update_supplier_entry(catalog[b], feed.name, feed) # catalog[b]
    /\ catalog' = [catalog EXCEPT ![b] = update_supplier_entry(@, feed.name, feed)]
    /\ listings' = [listings EXCEPT ![b] = MarkUpdatePending(@)]
    /\ UNCHANGED <<shopdocs, settings, now, obj, last, qres, engvars>>

\* the feed no longer has the barcode: the link is pruned, the listings are flagged
SupplierPrune(b, name) ==
    /\ InSupplierQuery(catalog[b], name)
    /\ catalog' = [catalog EXCEPT ![b] = prune_supplier_link(@, name)]
    /\ listings' = [listings EXCEPT ![b] = MarkUpdatePending(@)]
    /\ UNCHANGED <<shopdocs, settings, now, obj, last, qres, engvars>>

RETRY_BACKOFF_HOURS == <<12, 24, 48>>

\* {"shops": {"$elemMatch": {"shop": domain, "status": "create_failed"}}}
RetrySelected(arr, s) ==
    \E i \in 1..Len(arr) : arr[i]["shop"] = s /\ arr[i]["status"] = "create_failed"

\* {**listing, "status": "create_pending", "retry_count": retry_count + 1}
\* (no listing stores retry_count, so listing.get("retry_count", 0) is 0)
RetryPatch(listing) ==
    [k \in DOMAIN listing \cup {"retry_count"} |->
        IF k = "status" THEN "create_pending"
        ELSE IF k = "retry_count" THEN 1
        ELSE listing[k]]

\* the body of retry_failed_listings for one storefront and one product
RetryListing(arr, s, t) ==
    IF ~RetrySelected(arr, s) THEN arr
    ELSE LET listing == arr[FirstIndex(arr, s)]
         IN  IF listing["updated_at"] = NULL THEN arr
             ELSE IF t < listing["updated_at"] + 4 * RETRY_BACKOFF_HOURS[1] THEN arr
             ELSE Upsert(arr, arr, s, RetryPatch(listing), t).db

ShopSeq == <<"a.myshopify.com", "b.myshopify.com">>

RECURSIVE RetryShops(_, _, _, _)
RetryShops(arr, docs, i, t) ==
    IF i > Len(ShopSeq) THEN arr
    ELSE RetryShops(IF ShopSeq[i] \in docs THEN RetryListing(arr, ShopSeq[i], t) ELSE arr,
                    docs, i + 1, t)

\* retry_failed_listings over the ready storefronts
RetryFailed ==
    /\ listings' = [b \in Barcodes |-> RetryShops(listings[b], shopdocs, 1, now)]
    /\ UNCHANGED <<envvars, now, obj, last, qres, engvars>>

(***************************************************************************)
(* The reconciliation engine: runs, supplier refresh, retry task, time     *)
(***************************************************************************)

\* a listing no creation flow has completed: GLOBAL_DEFAULTS with the given status,
\* error_count and timestamps
NewListing(domain, status, count, t) ==
    [k \in GlobalDefaultFields \cup {"status", "shop", "created_at", "updated_at"} |->
        CASE k = "status" -> status
          [] k = "shop" -> domain
          [] k \in {"created_at", "updated_at"} -> t
          [] k = "error_count" -> count
          [] OTHER -> GLOBAL_DEFAULTS[k]]


\* feeds of the supplier for the barcode
FeedPrices == {3000}

\* twelve hours pass
EngineTick ==
    /\ now + TickStep <= MaxClock
    /\ now' = now + TickStep
    /\ UNCHANGED <<listings, envvars, obj, last, qres, engvars>>

\* the product is flagged create_pending for one storefront; for the other, two creation
\* attempts have failed
InitEngine ==
    /\ listings = [b \in Barcodes |->
                    <<NewListing(CallerShop, "create_error", 2, 0),
                      NewListing(OtherShop, "create_pending", 0, 0)>>]
    /\ obj = listings
    /\ shopdocs = Shops
    /\ settings = [s \in Shops |-> DEFAULT_SETTINGS]
    /\ catalog = [b \in Barcodes |-> EnrichedProduct]
    /\ now = 0
    /\ last = NoCall
    /\ qres = NoQuery
    /\ runs = NoRuns
    /\ remote = NoRemote
    /\ hist = [NoHist EXCEPT !["p1"][CallerShop].attempts = 2]
    /\ calls = NoCalls

\* the steps of a worker of a creation run
CreateStep(r, s) ==
    \/ \E o \in {"ready", "not_ready", "raises"} : Prepare(r, s, o)
    \/ BeginFlow(r, s)
    \/ \E o \in {"created", "created_no_handle", "created_no_variant", "rejected"} :
            RemoteCreate(r, s, o)
    \/ \E o \in {"done", "raises"} : FinishCreate(r, s, o)
    \/ MarkCreateError(r, s)
    \/ \E d \in BOOLEAN : Cleanup(r, s, d)

\* the steps of any worker
WorkerStep(r, s) ==
    \/ CreateStep(r, s)
    \/ SkipDryRun(r, s)
    \/ \E o \in {"done", "raises"} : UpdateFlow(r, s, o)

Background ==
    \/ \E b \in Barcodes, price \in FeedPrices : SupplierRefresh(b, Offer(DummySupplier, price, 100))
    \/ \E b \in Barcodes : SupplierPrune(b, DummySupplier)
    \/ RetryFailed
    \/ EngineTick

\* every task; the runs of a task are started one after another (no creation run while a
\* creation run is running, no update run while an update run is running)
NextSeq ==
    \/ \E r \in RunIds, k \in {"create", "update"}, d \in BOOLEAN : StartRun(r, k, d, FALSE)
    \/ \E r \in RunIds, s \in Shops : WorkerStep(r, s)
    \/ \E r \in RunIds : FinishRun(r)
    \/ Background

SpecSeq == InitEngine /\ [][NextSeq]_vars

\* creation runs, started also while another creation run is still running
NextOverlap ==
    \/ \E r \in RunIds : StartRun(r, "create", FALSE, TRUE)
    \/ \E r \in RunIds, s \in Shops : CreateStep(r, s)
    \/ \E r \in RunIds : FinishRun(r)

\* twelve hours after InitEngine: both pairs are due
InitOverlap ==
    /\ listings = [b \in Barcodes |->
                    <<NewListing(CallerShop, "create_error", 2, 0),
                      NewListing(OtherShop, "create_pending", 0, 0)>>]
    /\ obj = listings
    /\ shopdocs = Shops
    /\ settings = [s \in Shops |-> DEFAULT_SETTINGS]
    /\ catalog = [b \in Barcodes |-> EnrichedProduct]
    /\ now = TickStep
    /\ last = NoCall
    /\ qres = NoQuery
    /\ runs = NoRuns
    /\ remote = NoRemote
    /\ hist = [NoHist EXCEPT !["p1"][CallerShop].attempts = 2]
    /\ calls = NoCalls

SpecOverlap == InitOverlap /\ [][NextOverlap]_vars

(***************************************************************************)
(* Task runs over two products: a storefront with two selected pairs       *)
(***************************************************************************)

\* products a listing exists for although they cannot be listed: not enriched (no title),
\* not eligible (the image pipeline failed), without any supplier offer
UnenrichedProduct == [EnrichedProduct EXCEPT !.title = FALSE]
IneligibleProduct == [EnrichedProduct EXCEPT !.images_status = "failed"]
UnsuppliedProduct == [EnrichedProduct EXCEPT !.suppliers = <<>>]

\* a listing update_supplier_data has marked update_pending after a completed creation
PendingUpdate(domain) == [CreatedListing(domain, 1, 0) EXCEPT !["status"] = "update_pending"]

\* the first storefront has a due listing for both products, the second for the first
\* product; all are waiting for creation, or all for an update
InitCount ==
    /\ \E first \in {EnrichedProduct, UnenrichedProduct},
          second \in {EnrichedProduct, UnenrichedProduct, IneligibleProduct, UnsuppliedProduct} :
            catalog = [b \in BothBarcodes |-> IF b = BarcodeSeq[1] THEN first ELSE second]
    /\ \/ listings = [b \in BothBarcodes |->
                        IF b = BarcodeSeq[1]
                        THEN <<NewListing(CallerShop, "create_pending", 0, 0),
                               NewListing(OtherShop, "create_pending", 0, 0)>>
                        ELSE <<NewListing(CallerShop, "create_pending", 0, 0)>>]
       \/ listings = [b \in BothBarcodes |->
                        IF b = BarcodeSeq[1]
                        THEN <<PendingUpdate(CallerShop), PendingUpdate(OtherShop)>>
                        ELSE <<PendingUpdate(CallerShop)>>]
    /\ obj = listings
    /\ shopdocs = Shops
    /\ settings = [s \in Shops |-> DEFAULT_SETTINGS]
    /\ now = 0
    /\ last = NoCall
    /\ qres = NoQuery
    /\ runs = NoRuns
    /\ remote = [b \in BothBarcodes |-> [s \in Shops |-> 0]]
    /\ hist = [b \in BothBarcodes |-> [s \in Shops |-> [attempts |-> 0, created |-> FALSE]]]
    /\ calls = NoCalls

\* creation and update runs with their workers
NextCount ==
    \/ \E r \in RunIds, k \in {"create", "update"}, d \in BOOLEAN : StartRun(r, k, d, FALSE)
    \/ \E r \in RunIds, s \in Shops : WorkerStep(r, s)
    \/ \E r \in RunIds : FinishRun(r)

SpecCount == InitCount /\ [][NextCount]_vars

(***************************************************************************)
(* Concurrent callers of _upsert_shop_listing: the three update_one calls  *)
(* of one upsert are separate writes to the collection                     *)
(***************************************************************************)

\* the product all concurrent callers act on
RaceBarcode == BarcodeSeq[1]

\* the pair is among the pairs the due query of the task returns now
DueFor(kind, s) ==
    LET pairs == IF kind = "create"
                 THEN get_products_ready_for_posting(listings, shopdocs, now)
                 ELSE get_products_marked_for_update(listings, shopdocs, now)
    IN  \E i \in 1..Len(pairs) : pairs[i] = [barcode |-> RaceBarcode, shop |-> s]

\* handle_product_deleted: find_one by {shop, shopify_id} of the payload (the product the
\* storefront holds has id 1)
FoundByShopifyId(arr, s) ==
    \E i \in 1..Len(arr) : arr[i]["shop"] = s /\ arr[i]["shopify_id"] = 1

\* a caller obtains its Product object: the webhook handler after its find_one, a worker
\* from the due query of its task run; callers take the ids in order
RaceLoad(c, kind, s) ==
    /\ calls[c].pc = "idle"
    /\ \A q \in 1..(c - 1) : calls[q].pc # "idle"
    /\ IF kind = "webhook" THEN FoundByShopifyId(listings[RaceBarcode], s) ELSE DueFor(kind, s)
    /\ calls' = [calls EXCEPT ![c] =
                    [pc |-> "ready", kind |-> kind, shop |-> s,
                     mirror |-> listings[RaceBarcode], full |-> <<>>, step |-> 1]]
    /\ UNCHANGED <<listings, envvars, now, obj, last, qres, runs, remote, hist>>

\* the payload of the caller's next upsert: the webhook marks the listing unmanaged; a
\* flow marks it *_processing and then, by its outcome, created / updated or *_error
RacePatch(call, good) ==
    CASE call.kind = "webhook" -> [status |-> "unmanaged", message |-> 2]
      [] call.kind = "create" /\ call.step = 1 -> [status |-> "create_processing"]
      [] call.kind = "create" /\ good ->
            CreatedPatch(catalog[RaceBarcode], settings[call.shop], TRUE)
      [] call.kind = "create" -> [status |-> "create_error"]
      [] call.kind = "update" /\ call.step = 1 -> [status |-> "update_processing"]
      [] call.kind = "update" /\ good ->
            PricingPatch(catalog[RaceBarcode], settings[call.shop], "updated")
      [] OTHER -> [status |-> "update_error"]

\* the number of upserts the caller issues
RaceSteps(kind) == IF kind = "webhook" THEN 1 ELSE 2

\* the upsert has written: the mirror is updated and the caller goes on
RaceCompleted(call) ==
    [call EXCEPT !.pc = IF call.step < RaceSteps(call.kind) THEN "ready" ELSE "end",
                 !.mirror = MirrorListing(call.mirror, call.shop, call.full),
                 !.full = <<>>,
                 !.step = @ + 1]

\* _upsert_shop_listing up to its first write: validation, full_listing from the mirror and
\* the clock; with an entry in the mirror the $set comes next, without one the $push
RaceBegin(c, good) ==
    /\ calls[c].pc = "ready"
    /\ LET call == calls[c]
           patch == RacePatch(call, good)
       IN  calls' = [calls EXCEPT ![c] =
                IF UpsertRaises(call.mirror, call.shop, patch) THEN [call EXCEPT !.pc = "end"]
                ELSE [call EXCEPT !.pc = IF FirstIndex(call.mirror, call.shop) > 0
                                         THEN "set" ELSE "push",
                                  !.full = FullListing(call.mirror, call.shop, patch, now)]]
    /\ UNCHANGED <<listings, envvars, now, obj, last, qres, runs, remote, hist>>

\* update_one $set with the array filter; modified_count == 0 (no element of the shop, or
\* the element already equal to full_listing) sends the caller into the fallback
RaceSet(c) ==
    /\ calls[c].pc = "set"
    /\ LET call == calls[c]
           written == SetElems(listings[RaceBarcode], call.shop, call.full)
       IN  /\ listings' = [listings EXCEPT ![RaceBarcode] = written]
           /\ calls' = [calls EXCEPT ![c] =
                            IF written # listings[RaceBarcode] THEN RaceCompleted(call)
                            ELSE [call EXCEPT !.pc = "pull"]]
    /\ UNCHANGED <<envvars, now, obj, last, qres, runs, remote, hist>>

\* the fallback's update_one $pull
RacePull(c) ==
    /\ calls[c].pc = "pull"
    /\ listings' = [listings EXCEPT ![RaceBarcode] = PullShop(@, calls[c].shop)]
    /\ calls' = [calls EXCEPT ![c].pc = "push"]
    /\ UNCHANGED <<envvars, now, obj, last, qres, runs, remote, hist>>

\* update_one $push, of the fallback or for a product whose mirror had no entry
RacePush(c) ==
    /\ calls[c].pc = "push"
    /\ listings' = [listings EXCEPT ![RaceBarcode] = Append(@, calls[c].full)]
    /\ calls' = [calls EXCEPT ![c] = RaceCompleted(calls[c])]
    /\ UNCHANGED <<envvars, now, obj, last, qres, runs, remote, hist>>

\* the clock shows the next value
RaceTick ==
    /\ now < MaxRaceClock
    /\ now' = now + 1
    /\ UNCHANGED <<listings, envvars, obj, last, qres, engvars>>

\* the product is listed on the first storefront and waits for an update there; it waits
\* for its creation on the second
InitRace ==
    /\ listings = [b \in Barcodes |->
                    <<PendingUpdate(CallerShop), NewListing(OtherShop, "create_pending", 0, 0)>>]
    /\ obj = listings
    /\ shopdocs = Shops
    /\ settings = [s \in Shops |-> DEFAULT_SETTINGS]
    /\ catalog = [b \in Barcodes |-> EnrichedProduct]
    /\ now = 0
    /\ last = NoCall
    /\ qres = NoQuery
    /\ runs = NoRuns
    /\ remote = NoRemote
    /\ hist = NoHist
    /\ calls = NoCalls

NextRace ==
    \/ \E c \in CallerIds, kind \in {"webhook", "create", "update"}, s \in Shops :
            RaceLoad(c, kind, s)
    \/ \E c \in CallerIds, good \in BOOLEAN : RaceBegin(c, good)
    \/ \E c \in CallerIds : RaceSet(c) \/ RacePull(c) \/ RacePush(c)
    \/ RaceTick

SpecRace == InitRace /\ [][NextRace]_vars

\* C11: a product never holds more than one listing for a storefront domain, whatever the
\* interleaving of the upserts of the workers and of the products/delete webhook
C11_OneListingPerStorefront ==
    \A b \in DOMAIN listings, s \in Shops : Len(EntriesOf(listings[b], s)) <= 1

(***************************************************************************)
(* The life of a listing after its creation: update runs, supplier         *)
(* refresh, the products/delete webhook, half-hour clock steps             *)
(***************************************************************************)

\* handle_product_deleted of routes/shopify_webhooks.py: the product holding the listing of
\* the deleted remote product is loaded and the listing is marked unmanaged
WebhookDelete(b, s) ==
    /\ FoundByShopifyId(listings[b], s)
    /\ listings' = [listings EXCEPT ![b] =
                        Upsert(@, @, s, [status |-> "unmanaged", message |-> 2], now).db]
    /\ UNCHANGED <<envvars, now, obj, last, qres, engvars>>

\* half an hour passes
LifeTick ==
    /\ now + LifeStep <= MaxLifeClock
    /\ now' = now + LifeStep
    /\ UNCHANGED <<listings, envvars, obj, last, qres, engvars>>

\* the product is listed on one storefront: its creation flow has completed
InitLife ==
    /\ listings = [b \in Barcodes |-> <<CreatedListing(CallerShop, 1, 0)>>]
    /\ obj = listings
    /\ shopdocs = Shops
    /\ settings = [s \in Shops |-> DEFAULT_SETTINGS]
    /\ catalog = [b \in Barcodes |-> EnrichedProduct]
    /\ now = 0
    /\ last = NoCall
    /\ qres = NoQuery
    /\ runs = NoRuns
    /\ remote = [b \in Barcodes |-> [s \in Shops |-> IF s = CallerShop THEN 1 ELSE 0]]
    /\ hist = [b \in Barcodes |-> [s \in Shops |->
                    [attempts |-> 0, created |-> s = CallerShop]]]
    /\ calls = NoCalls

\* the steps of a worker of an update run
UpdateStep(r, s) ==
    \/ \E o \in {"ready", "not_ready", "raises"} : Prepare(r, s, o)
    \/ SkipDryRun(r, s)
    \/ BeginFlow(r, s)
    \/ \E o \in {"done", "raises"} : UpdateFlow(r, s, o)

\* creation runs (which find nothing to create), update runs, the supplier refresh, the
\* webhook and the clock
NextLife ==
    \/ \E r \in RunIds, k \in {"create", "update"}, d \in BOOLEAN : StartRun(r, k, d, FALSE)
    \/ \E r \in RunIds, s \in Shops : UpdateStep(r, s)
    \/ \E r \in RunIds : FinishRun(r)
    \/ \E b \in Barcodes, price \in FeedPrices : SupplierRefresh(b, Offer(DummySupplier, price, 100))
    \/ \E b \in Barcodes : SupplierPrune(b, DummySupplier)
    \/ \E b \in Barcodes, s \in Shops : WebhookDelete(b, s)
    \/ LifeTick

SpecLife == InitLife /\ [][NextLife]_vars

(***************************************************************************)
(* update_supplier_data over listings in every status, with its dry run    *)
(***************************************************************************)

\* update_supplier_data(dry_run=True) for a product whose offer changed or left the feed:
\* the change is logged and counted, nothing is written
SupplierDryRun(b, feed, removed) ==
    /\ InSupplierQuery(catalog[b], feed.name)
    /\ removed \/ update_supplier_entry(catalog[b], feed.name, feed) # catalog[b]
    /\ qres' = [kind |-> "supplier_dry_run", barcode |-> b, removed |-> removed]
    /\ UNCHANGED <<listings, envvars, engvars, now, obj, last>>

\* the listings a storefront may hold for the product
ListingChoices(domain) ==
    {<<>>,
     <<NewListing(domain, "create_pending", 0, 0)>>,
     <<NewListing(domain, "create_error", 1, 0)>>,
     <<CreatedListing(domain, 1, 0)>>,
     <<[CreatedListing(domain, 1, 0) EXCEPT !["status"] = "updated"]>>,
     <<PendingUpdate(domain)>>,
     <<[CreatedListing(domain, 1, 0) EXCEPT !["status"] = "update_error", !["error_count"] = 1]>>,
     <<[CreatedListing(domain, 1, 0) EXCEPT !["status"] = "unmanaged"]>>}

InitSupplier ==
    /\ \E first \in ListingChoices(CallerShop), second \in ListingChoices(OtherShop) :
            listings = [b \in Barcodes |-> first \o second]
    /\ obj = listings
    /\ shopdocs = Shops
    /\ settings = [s \in Shops |-> DEFAULT_SETTINGS]
    /\ catalog \in [Barcodes -> {EnrichedProduct, UnenrichedProduct}]
    /\ now = 1
    /\ last = NoCall
    /\ qres = NoQuery
    /\ runs = NoRuns
    /\ remote = NoRemote
    /\ hist = NoHist
    /\ calls = NoCalls

NextSupplier ==
    \/ \E b \in Barcodes, price \in FeedPrices : SupplierRefresh(b, Offer(DummySupplier, price, 100))
    \/ \E b \in Barcodes : SupplierPrune(b, DummySupplier)
    \/ \E b \in Barcodes, price \in FeedPrices, removed \in BOOLEAN :
            SupplierDryRun(b, Offer(DummySupplier, price, 100), removed)

SpecSupplier == InitSupplier /\ [][NextSupplier]_vars

\* C36: a step of update_supplier_data that stores a changed or removed offer of a product
\* turns every created / updated listing of the product, on every storefront, into
\* update_pending and changes nothing else of any listing; a dry run changes no listing.
C36_OnlyListedBecomePending ==
    [][/\ \A b \in Barcodes :
            catalog'[b] # catalog[b]
                => /\ Len(listings'[b]) = Len(listings[b])
                   /\ \A i \in 1..Len(listings[b]) :
                        /\ DOMAIN listings'[b][i] = DOMAIN listings[b][i]
                        /\ \A k \in DOMAIN listings[b][i] \ {"status"} :
                                listings'[b][i][k] = listings[b][i][k]
                        /\ listings'[b][i]["status"] =
                                IF listings[b][i]["status"] \in {"created", "updated"}
                                THEN "update_pending"
                                ELSE listings[b][i]["status"]
       /\ (qres'.kind = "supplier_dry_run" /\ qres' # qres) => listings' = listings]_vars

\* the product was listed on both storefronts (created, updated); the changed offer has been
\* stored and both listings are update_pending with their fields as before
C36_Witness ==
    \E b \in Barcodes :
        /\ catalog[b].suppliers # <<>>
        /\ catalog[b].suppliers[1].price \in FeedPrices
        /\ Len(obj[b]) = 2 /\ Len(listings[b]) = 2
        /\ obj[b][1]["status"] = "created" /\ obj[b][2]["status"] = "updated"
        /\ listings[b][1] = [obj[b][1] EXCEPT !["status"] = "update_pending"]
        /\ listings[b][2] = [obj[b][2] EXCEPT !["status"] = "update_pending"]

(***************************************************************************)
(* core/tasks/flag_products_to_create.py                                   *)
(***************************************************************************)

\* the methods of Product that the tasks call
ProductAttributes ==
    {"has_shop_listing", "is_enriched_for_listing", "is_product_eligible",
     "get_best_supplier_for_shop", "get_selling_price_for_shop", "mark_listed_to_shop"}

\* the $match of Shop.get_eligible_product_barcodes_with_count for a storefront without
\* exclusions: the three enrichment statuses and "shops.shop": {"$ne": domain}
EligibleForFlagging(doc, arr, s) ==
    /\ doc.ai_generate_status = "success"
    /\ doc.barcode_lookup_status = "success"
    /\ doc.images_status = "success"
    /\ \A i \in 1..Len(arr) : arr[i]["shop"] # s

\* the inner try block for one barcode: an exception (AttributeError for a method Product
\* does not have, or one raised by the upsert) is caught and counted as failed
FlagProduct(arr, doc, cfg, s, t) ==
    IF "has_been_listed_to_shop" \notin ProductAttributes
    THEN [arr |-> arr, flagged |-> 0, failed |-> 1]
    ELSE IF get_best_supplier_for_shop(doc, cfg) = 0
    THEN [arr |-> arr, flagged |-> 0, failed |-> 0]
    ELSE LET u == Upsert(arr, arr, s, [status |-> "create_pending"], t)
         IN  [arr |-> u.db, flagged |-> IF u.ok THEN 1 ELSE 0, failed |-> IF u.ok THEN 0 ELSE 1]

\* the loop over the ready storefronts for one product, from storefront i on
RECURSIVE FlagShops(_, _, _, _, _, _)
FlagShops(acc, doc, cfgs, docs, i, t) ==
    IF i > Len(ShopSeq) THEN acc
    ELSE IF ShopSeq[i] \notin docs \/ ~EligibleForFlagging(doc, acc.arr, ShopSeq[i])
    THEN FlagShops(acc, doc, cfgs, docs, i + 1, t)
    ELSE LET one == FlagProduct(acc.arr, doc, cfgs[ShopSeq[i]], ShopSeq[i], t)
         IN  FlagShops([arr |-> one.arr, flagged |-> acc.flagged + one.flagged,
                        failed |-> acc.failed + one.failed],
                       doc, cfgs, docs, i + 1, t)

\* flag_products_to_create: the whole task; its log reports the two counts
FlagProductsToCreate ==
    /\ LET done == [b \in Barcodes |->
                        FlagShops([arr |-> listings[b], flagged |-> 0, failed |-> 0],
                                  catalog[b], settings, shopdocs, 1, now)]
           one == CHOOSE b \in Barcodes : TRUE
       IN  /\ listings' = [b \in Barcodes |-> done[b].arr]
           /\ qres' = [kind |-> "flag", before |-> listings,
                       flagged |-> done[one].flagged, failed |-> done[one].failed]
    /\ UNCHANGED <<envvars, engvars, now, obj, last>>

\* a product, enriched or not, with or without an offer, and its listings on the storefronts;
\* one or both storefronts are ready
InitFlag ==
    /\ \E first \in ListingChoices(CallerShop), second \in ListingChoices(OtherShop) :
            listings = [b \in Barcodes |-> first \o second]
    /\ obj = listings
    /\ shopdocs \in {Shops, {CallerShop}}
    /\ settings = [s \in Shops |-> DEFAULT_SETTINGS]
    /\ catalog \in [Barcodes -> {EnrichedProduct, UnenrichedProduct, UnsuppliedProduct}]
    /\ now = 1
    /\ last = NoCall
    /\ qres = NoQuery
    /\ runs = NoRuns
    /\ remote = NoRemote
    /\ hist = NoHist
    /\ calls = NoCalls

NextFlag == FlagProductsToCreate

SpecFlag == InitFlag /\ [][NextFlag]_vars

\* C39: after flag_products_to_create, every enrichment-complete product that had no listing
\* for a ready storefront and has a best supplier for it has a create_pending listing with
\* error_count 0 for that storefront; a listing that existed is unchanged.
C39_FlaggedCreatePending ==
    qres.kind = "flag"
        => \A b \in Barcodes, s \in shopdocs :
            IF EntriesOf(qres.before[b], s) # <<>>
            THEN EntriesOf(listings[b], s) = EntriesOf(qres.before[b], s)
            ELSE (/\ is_enriched_for_listing(catalog[b])
                  /\ catalog[b].barcode_lookup_status = "success"
                  /\ catalog[b].images_status = "success"
                  /\ catalog[b].ai_generate_status = "success"
                  /\ get_best_supplier_for_shop(catalog[b], settings[s]) # 0)
                    => /\ Len(EntriesOf(listings[b], s)) = 1
                       /\ EntriesOf(listings[b], s)[1]["status"] = "create_pending"
                       /\ EntriesOf(listings[b], s)[1]["error_count"] = 0

(***************************************************************************)
(* Task runs started with --workers 1 or 2 over two storefronts            *)
(***************************************************************************)

\* the values of --workers
PoolSizes == {1, 2}

NextPool ==
    \/ \E r \in RunIds, k \in {"create", "update"}, d \in BOOLEAN, n \in PoolSizes :
            StartRunWith(r, k, d, FALSE, n)
    \/ \E r \in RunIds, s \in Shops : WorkerStep(r, s)
    \/ \E r \in RunIds : FinishRun(r)

SpecPool == InitCount /\ [][NextPool]_vars

(***************************************************************************)
(* Task runs that may be terminated from outside (process kill)            *)
(***************************************************************************)

\* the process of a task run is killed while a worker has work left: the coordinator and
\* its worker threads stop where they are, what they wrote stays
Terminate(r) ==
    /\ runs[r].kind # "idle"
    /\ \E s \in Shops : runs[r].w[s].pc \notin {"idle", "done", "raised"}
    /\ runs' = [runs EXCEPT ![r] = IdleRun]
    /\ UNCHANGED <<listings, envvars, now, obj, last, qres, calls, remote, hist>>

\* one storefront has the product flagged for creation, the other lists it and is flagged
\* for an update
InitCrash ==
    /\ listings = [b \in Barcodes |->
                    <<NewListing(CallerShop, "create_pending", 0, 0), PendingUpdate(OtherShop)>>]
    /\ obj = listings
    /\ shopdocs = Shops
    /\ settings = [s \in Shops |-> DEFAULT_SETTINGS]
    /\ catalog = [b \in Barcodes |-> EnrichedProduct]
    /\ now = 0
    /\ last = NoCall
    /\ qres = NoQuery
    /\ runs = NoRuns
    /\ remote = [b \in Barcodes |-> [s \in Shops |-> IF s = OtherShop THEN 1 ELSE 0]]
    /\ hist = [b \in Barcodes |-> [s \in Shops |->
                    [attempts |-> 0, created |-> s = OtherShop]]]
    /\ calls = NoCalls

NextCrash ==
    \/ \E r \in RunIds, k \in {"create", "update"}, d \in BOOLEAN : StartRun(r, k, d, FALSE)
    \/ \E r \in RunIds, s \in Shops : WorkerStep(r, s)
    \/ \E r \in RunIds : FinishRun(r)
    \/ \E r \in RunIds : Terminate(r)
    \/ EngineTick

SpecCrash == InitCrash /\ [][NextCrash]_vars

\* runs keep being executed: both tasks keep being started, a started worker takes its next
\* step and a run whose workers have returned ends; the clock and the kill are not forced
SpecCrashFair ==
    /\ SpecCrash
    /\ \A k \in {"create", "update"} :
            WF_vars(\E r \in RunIds, d \in BOOLEAN : StartRun(r, k, d, FALSE))
    /\ \A r \in RunIds, s \in Shops : WF_vars(WorkerStep(r, s))
    /\ \A r \in RunIds : WF_vars(FinishRun(r))

(***************************************************************************)
(* core/shops.py delete_shop while task runs are working                   *)
(***************************************************************************)

\* Shops.delete_shop(domain, cleanup_related=True): the shop document is deleted, then
\* update_many pulls the domain's listing from every product
DeleteShop(s) ==
    /\ s \in shopdocs
    /\ shopdocs' = shopdocs \ {s}
    /\ listings' = [b \in Barcodes |-> PullShop(listings[b], s)]
    /\ UNCHANGED <<settings, catalog, now, obj, last, qres, engvars>>

\* task runs and the removal of a storefront (app/uninstalled webhook)
NextUninstall ==
    \/ \E r \in RunIds, k \in {"create", "update"}, d \in BOOLEAN : StartRun(r, k, d, FALSE)
    \/ \E r \in RunIds, s \in Shops : WorkerStep(r, s)
    \/ \E r \in RunIds : FinishRun(r)
    \/ \E s \in Shops : DeleteShop(s)

SpecUninstall == InitCrash /\ [][NextUninstall]_vars

(***************************************************************************)
(* Supplier refreshes that arrive while update runs are working            *)
(***************************************************************************)

\* what the supplier's feed has for the barcode: a new price, or the old price with
\* another stock level
RepriceFeeds == {Offer(DummySupplier, 3000, 100), Offer(DummySupplier, 2500, 40)}

\* the product is listed on one storefront with the pricing of its current best offer
InitReprice ==
    /\ listings = [b \in Barcodes |->
                    Upsert(<<>>, <<>>, CallerShop,
                           CreatedPatch(EnrichedProduct, DEFAULT_SETTINGS, TRUE), 0).db]
    /\ obj = listings
    /\ shopdocs = Shops
    /\ settings = [s \in Shops |-> DEFAULT_SETTINGS]
    /\ catalog = [b \in Barcodes |-> EnrichedProduct]
    /\ now = 0
    /\ last = NoCall
    /\ qres = NoQuery
    /\ runs = NoRuns
    /\ remote = [b \in Barcodes |-> [s \in Shops |-> IF s = CallerShop THEN 1 ELSE 0]]
    /\ hist = [b \in Barcodes |-> [s \in Shops |->
                    [attempts |-> 0, created |-> s = CallerShop]]]
    /\ calls = NoCalls

\* update runs, the supplier refresh and the clock
NextReprice ==
    \/ \E r \in RunIds, d \in BOOLEAN : StartRun(r, "update", d, FALSE)
    \/ \E r \in RunIds, s \in Shops : UpdateStep(r, s)
    \/ \E r \in RunIds : FinishRun(r)
    \/ \E b \in Barcodes, feed \in RepriceFeeds : SupplierRefresh(b, feed)
    \/ LifeTick

SpecReprice == InitReprice /\ [][NextReprice]_vars

(***************************************************************************)
(* Creation runs that keep being executed while the back-off times pass    *)
(***************************************************************************)

\* the longest back-off of a creation retry, and the time the back-offs of one listing add
\* up to at most
LongestBackoff == CreateBackoff(MAX_FAIL_COUNT - 1)
RetryHorizon == (MAX_FAIL_COUNT - 1) * LongestBackoff

\* a listing still waits for a creation attempt
AwaitingCreation ==
    \E b \in Barcodes : \E i \in 1..Len(listings[b]) :
        MatchStage(listings[b][i], {"create_pending", "create_error"}, MAX_FAIL_COUNT)

\* the longest back-off passes; the clock is looked at only by the due-query, so it is
\* advanced when no worker is inside a flow and the due-query has nothing to return
RetryTick ==
    /\ \A r \in RunIds, s \in Shops : runs[r].w[s].pc \in {"idle", "done", "raised"}
    /\ get_products_ready_for_posting(listings, shopdocs, now) = <<>>
    /\ AwaitingCreation
    /\ now + LongestBackoff <= RetryHorizon
    /\ now' = now + LongestBackoff
    /\ UNCHANGED <<listings, envvars, obj, last, qres, engvars>>

\* the steps of a worker of a creation run whose storefront preparation succeeds
ReadyCreateStep(r, s) ==
    \/ Prepare(r, s, "ready")
    \/ BeginFlow(r, s)
    \/ \E o \in {"created", "created_no_handle", "created_no_variant", "rejected"} :
            RemoteCreate(r, s, o)
    \/ \E o \in {"done", "raises"} : FinishCreate(r, s, o)
    \/ MarkCreateError(r, s)
    \/ \E d \in BOOLEAN : Cleanup(r, s, d)

NextRetry ==
    \/ \E r \in RunIds : StartRun(r, "create", FALSE, FALSE)
    \/ \E r \in RunIds, s \in Shops : ReadyCreateStep(r, s)
    \/ \E r \in RunIds : FinishRun(r)
    \/ RetryTick

SpecRetry == InitEngine /\ [][NextRetry]_vars

\* creation runs keep being started, a started worker takes its next step, a run whose
\* workers have returned ends, and time passes
SpecRetryFair ==
    /\ SpecRetry
    /\ WF_vars(\E r \in RunIds : StartRun(r, "create", FALSE, FALSE))
    /\ \A r \in RunIds, s \in Shops : WF_vars(ReadyCreateStep(r, s))
    /\ \A r \in RunIds : WF_vars(FinishRun(r))
    /\ WF_vars(RetryTick)

(***************************************************************************)
(* Claims about the reconciliation engine                                  *)
(***************************************************************************)

\* the status of the stored listing of a pair, "none" without one
StatusIn(coll, b, s) ==
    IF EntriesOf(coll[b], s) = <<>> THEN "none" ELSE EntriesOf(coll[b], s)[1]["status"]

\* the worker of storefront s in run r is inside create_on_shopify / update_on_shopify for b
InFlight(r, s, b) ==
    /\ runs[r].w[s].pc \in {"remote", "enrich", "failed", "cleanup", "update"}
    /\ runs[r].w[s].queue[1].barcode = b

\* the pair is among those a run holds for processing
Queued(rs, r, s, b) ==
    \E i \in 1..Len(rs[r].w[s].queue) : rs[r].w[s].queue[i].barcode = b

\* C1: with creation runs executed one after another, a pair whose listing has reached
\* `created` is never among the pairs a creation run selected and so never handed to
\* create_product again.
C1_CreatedNeverSelectedAgain ==
    \A r \in RunIds, s \in Shops, b \in Barcodes :
        (runs[r].kind = "create" /\ hist[b][s].created) => ~Queued(runs, r, s, b)

\* a later creation run has run its due-query, selected the other storefront's pair and left
\* out the pair that an earlier run created
C1_Witness ==
    \E r \in RunIds :
        /\ runs[r].kind = "create"
        /\ runs[r].w[OtherShop].pc = "idle"
        /\ runs[r].w[CallerShop].pc = "remote"
        /\ hist["p1"][OtherShop].created
        /\ StatusIn(listings, "p1", OtherShop) = "created"
        /\ remote["p1"][OtherShop] = 1

\* C2: at any time at most one worker, over all runs, is inside a create or update flow for
\* a given pair.
C2_OneWorkerPerPair ==
    \A b \in Barcodes, s \in Shops :
        Cardinality({r \in RunIds : InFlight(r, s, b)}) <= 1

\* C3: a step of the worker of storefront A leaves every other storefront's listing of every
\* product unchanged.
C3_OtherStorefrontsUntouched ==
    [][\A r \in RunIds, a \in Shops :
            runs'[r].w[a] # runs[r].w[a] /\ runs[r].kind = runs'[r].kind
                => \A b \in Barcodes, o \in Shops \ {a} :
                        EntriesOf(listings'[b], o) = EntriesOf(listings[b], o)]_vars

\* both storefronts' workers are inside the creation flow of the same barcode, and the
\* caller storefront's listing has gone through the delete-then-insert fallback (it has moved
\* behind the other storefront's listing)
C3_Witness ==
    /\ \E r \in RunIds : InFlight(r, CallerShop, "p1")
    /\ \E r \in RunIds : InFlight(r, OtherShop, "p1")
    /\ Len(listings["p1"]) = 2
    /\ listings["p1"][1]["shop"] = OtherShop
    /\ listings["p1"][2]["shop"] = CallerShop

\* C4: an upsert to create_error that brings error_count to 3 leaves the listing create_fail;
\* a pair is attempted at most 3 times without success; a create_fail listing is never
\* selected by a run and its status never changes.
C4_CreateFailIsTerminal ==
    [][\A b \in Barcodes, s \in Shops :
            /\ \A i \in 1..Len(listings'[b]) :
                    listings'[b][i]["status"] = "create_error"
                        => listings'[b][i]["error_count"] < MAX_FAIL_COUNT
            /\ hist'[b][s].attempts <= MAX_FAIL_COUNT
            /\ StatusIn(listings, b, s) = "create_fail"
                    => /\ StatusIn(listings', b, s) = "create_fail"
                       /\ \A r \in RunIds :
                            runs[r].kind = "idle" => ~Queued(runs', r, s, b)]_vars

(***************************************************************************)
(* Claims about the counts of a task run                                   *)
(***************************************************************************)

\* the stored error_count of the listing of a pair
ErrorCountIn(coll, b, s) == EntriesOf(coll[b], s)[1]["error_count"]

\* the worker of storefront s in run r has a product of its list in hand
Handling(rs, r, s) == rs[r].w[s].pc \in {"loop", "remote", "enrich", "failed", "cleanup", "update"}

\* the product cannot be listed on the storefront: not enriched, not eligible, or no offer
\* of a supplier that is not excluded has a price
Unlistable(doc, cfg) ==
    \/ ~EnrichedEnough(doc)
    \/ ~EligibleFor(doc, cfg)
    \/ Admissible(doc.suppliers, cfg, TRUE) \cup Admissible(doc.suppliers, cfg, FALSE) = {}

\* the worker has finished with the product it had in hand
Finished(r, s) == Handling(runs, r, s) /\ runs'[r].w[s].queue = Tail(runs[r].w[s].queue)

\* C17: when a run (not a dry run) finishes with a selected pair whose product is not
\* enriched, not eligible or has no eligible supplier, the pair is an expected skip: it is
\* not counted as failed, its error_count is not incremented and its listing is not left in
\* an *_error or *_fail status
C17_UnlistableIsSkipped ==
    [][\A r \in RunIds, s \in Shops :
        (/\ Finished(r, s)
         /\ ~runs[r].dry_run
         /\ Unlistable(runs[r].w[s].queue[1].doc, settings[s]))
        => /\ runs'[r].w[s].failed = runs[r].w[s].failed
           /\ ErrorCountIn(listings', runs[r].w[s].queue[1].barcode, s)
                = ErrorCountIn(listings, runs[r].w[s].queue[1].barcode, s)
           /\ StatusIn(listings', runs[r].w[s].queue[1].barcode, s)
                \notin {"create_error", "update_error", "create_fail", "update_fail"}]_vars

\* C18: when the preparation of a storefront fails, for whatever reason, the coordinator
\* counts every pair of the storefront as skipped and none as failed, and the worker
\* modifies none of the storefront's listings in the run
C18_PrepareFailureSkipsAll ==
    [][\A r \in RunIds, s \in Shops :
        (runs[r].w[s].pc = "prepare" /\ runs'[r].w[s].pc \notin {"prepare", "loop"})
        => /\ Aggregate(runs'[r].w, {s})
                = [success |-> 0, failed |-> 0, skipped |-> runs[r].w[s].products]
           /\ runs'[r].w[s].queue = <<>>
           /\ listings' = listings]_vars

\* the step ends the product in hand with an exception: the except block of the creation
\* flow is left, or the update flow has marked the listing update_error
EndsByException(r, s) ==
    /\ runs'[r].w[s].pc \in {"loop", "done", "raised"}
    /\ \/ runs[r].w[s].pc \in {"failed", "cleanup"}
       \/ /\ runs[r].w[s].pc = "update"
          /\ StatusIn(listings', runs[r].w[s].queue[1].barcode, s) \in {"update_error", "create_fail"}
          /\ StatusIn(listings, runs[r].w[s].queue[1].barcode, s) = "update_processing"

\* C19: an exception on one product adds exactly one to the worker's failed count, leaves
\* success and skipped as they were and does not end the worker: the products after it stay
\* in its list and it goes on with the next one
C19_FailureIsCountedOnce ==
    [][\A r \in RunIds, s \in Shops :
        EndsByException(r, s)
        => /\ runs'[r].w[s].failed = runs[r].w[s].failed + 1
           /\ runs'[r].w[s].success = runs[r].w[s].success
           /\ runs'[r].w[s].skipped = runs[r].w[s].skipped
           /\ runs'[r].w[s].queue = Tail(runs[r].w[s].queue)
           /\ runs'[r].w[s].pc = IF Len(runs[r].w[s].queue) > 1 THEN "loop" ELSE "done"]_vars

\* a worker has returned after its first product failed and its second one succeeded
C19_Witness ==
    \E r \in RunIds, s \in Shops :
        /\ runs[r].w[s].pc = "done"
        /\ runs[r].w[s].products = 2
        /\ runs[r].w[s].failed = 1
        /\ runs[r].w[s].success = 1
        /\ StatusIn(listings, BarcodeSeq[1], s) \in {"create_error", "update_error"}
        /\ StatusIn(listings, BarcodeSeq[2], s) \in {"created", "updated"}

\* the pairs handed to the workers of a run
RECURSIVE Dispatched(_, _)
Dispatched(w, ws) ==
    IF ws = {} THEN 0
    ELSE LET s == CHOOSE x \in ws : TRUE IN w[s].products + Dispatched(w, ws \ {s})

\* C20: when every worker of a run has ended, the success, failed and skipped totals of the
\* coordinator add up to the number of pairs handed to the workers
C20_CountsAddUp ==
    \A r \in RunIds :
        (/\ runs[r].kind # "idle"
         /\ \A s \in Shops : runs[r].w[s].pc \in {"idle", "done", "raised"})
        => LET total == Aggregate(runs[r].w, Submitted(runs[r]))
           IN  total.success + total.failed + total.skipped
                 = Dispatched(runs[r].w, Submitted(runs[r]))

(***************************************************************************)
(* Claims about a listing after its creation, checked under SpecLife       *)
(***************************************************************************)

\* the creation flow of the pair has completed once
ReachedCreated(b, s) == hist[b][s].created

\* C23: fewer than 9 consecutive update failures never put a listing in a terminal status: a
\* listing that was created and is create_fail or update_fail has an error_count of 9 or more.
C23_UpdateRetriesUpToNine ==
    \A b \in Barcodes, s \in Shops :
        (ReachedCreated(b, s) /\ StatusIn(listings, b, s) \in {"create_fail", "update_fail"})
            => ErrorCountIn(listings, b, s) >= 9

\* C24: once the creation flow of a pair has completed, the status of its listing is never
\* create_pending, create_processing, create_error or create_fail.
C24_NoWayBackToCreation ==
    \A b \in Barcodes, s \in Shops :
        ReachedCreated(b, s)
            => StatusIn(listings, b, s)
                    \notin {"create_pending", "create_processing", "create_error", "create_fail"}

\* C27: a listing in a pre-creation status carries no external identifier.
C27_NoIdentifiersBeforeCreation ==
    \A b \in Barcodes : \A i \in 1..Len(listings[b]) :
        listings[b][i]["status"]
                \in {"create_pending", "create_processing", "create_error", "create_fail"}
            => \A f \in IdentifierFields : listings[b][i][f] = NULL

(***************************************************************************)
(* Claims about the creation flow and the update flow                      *)
(***************************************************************************)

\* the product the worker of storefront s in run r has in hand
InHand(r, s) == runs[r].w[s].queue[1].barcode

\* C21: a creation flow that failed after the remote product was created attempts its deletion
\* before the listing is recorded as failed: the step that records create_error (or create_fail)
\* is not taken by a worker that holds the id of a remote product it has yet to try to delete.
C21_DeletionBeforeCreateError ==
    [][\A r \in RunIds, s \in Shops :
        (runs[r].w[s].pc = "failed" /\ runs[r].w[s].pid)
            => StatusIn(listings', InHand(r, s), s) \notin {"create_error", "create_fail"}]_vars

\* C25: a failure inside the creation flow records create_error (create_fail at the ceiling),
\* one inside the update flow update_error (update_fail at the ceiling), each with error_count
\* one more than before; and the step that ends a flow never leaves the listing in
\* create_processing or update_processing.
C25_FailureIsRecorded ==
    [][\A r \in RunIds, s \in Shops :
        /\ (runs[r].w[s].pc = "failed" /\ runs'[r].w[s].pc # "failed")
            => /\ StatusIn(listings', InHand(r, s), s) \in {"create_error", "create_fail"}
               /\ ErrorCountIn(listings', InHand(r, s), s)
                    = ErrorCountIn(listings, InHand(r, s), s) + 1
        /\ (runs[r].w[s].pc = "update" /\ runs'[r].w[s].failed = runs[r].w[s].failed + 1)
            => /\ StatusIn(listings', InHand(r, s), s) \in {"update_error", "update_fail"}
               /\ ErrorCountIn(listings', InHand(r, s), s)
                    = ErrorCountIn(listings, InHand(r, s), s) + 1
        /\ (/\ runs[r].w[s].pc \in {"enrich", "failed", "cleanup", "update"}
            /\ runs'[r].w[s].pc \in {"loop", "done"})
            => StatusIn(listings', InHand(r, s), s) \notin {"create_processing", "update_processing"}]_vars

\* C22: a listing left in create_processing / update_processing by a terminated run (no worker
\* has the pair in hand) eventually leaves that status when runs keep being executed.
C22_ProcessingIsReconciled ==
    \A b \in Barcodes, s \in Shops :
        (/\ StatusIn(listings, b, s) \in {"create_processing", "update_processing"}
         /\ \A r \in RunIds : ~InFlight(r, s, b))
            ~> (StatusIn(listings, b, s) \notin {"create_processing", "update_processing"})

\* C38: every step of a worker of a dry run leaves the listings and the remote products as they
\* were and enters no creation or update flow; a product the worker takes from its list is
\* counted as skipped, and a worker that returns has counted all its products as skipped.
C38_DryRunChangesNothing ==
    [][\A r \in RunIds, s \in Shops :
        (/\ runs[r].kind # "idle" /\ runs[r].dry_run
         /\ runs'[r].kind # "idle"
         /\ runs'[r].w[s] # runs[r].w[s])
            => /\ listings' = listings
               /\ remote' = remote
               /\ runs'[r].w[s].pc \in {"loop", "done", "raised"}
               /\ runs'[r].w[s].success = 0 /\ runs'[r].w[s].failed = 0
               /\ runs[r].w[s].pc = "loop" => runs'[r].w[s].skipped = runs[r].w[s].skipped + 1
               /\ runs'[r].w[s].pc = "done" => runs'[r].w[s].skipped = runs[r].w[s].products]_vars

\* the worker of a dry creation run has skipped the first of its two products; both listings
\* are create_pending with error_count 0 and nothing was created remotely
C38_Witness ==
    \E r \in RunIds :
        /\ runs[r].kind = "create" /\ runs[r].dry_run
        /\ runs[r].w[CallerShop].pc = "loop"
        /\ runs[r].w[CallerShop].products = 2
        /\ runs[r].w[CallerShop].skipped = 1
        /\ \A b \in BothBarcodes :
            /\ StatusIn(listings, b, CallerShop) = "create_pending"
            /\ ErrorCountIn(listings, b, CallerShop) = 0
            /\ remote[b][CallerShop] = 0

\* the barcodes of a sequence of pairs or of loaded products
BarcodesOf(seq) == [i \in 1..Len(seq) |-> seq[i].barcode]

\* the pairs of storefront s in the order of the due-query of the run's task
DuePairsOf(kind, s) ==
    SelectSeq(IF kind = "create"
              THEN get_products_ready_for_posting(listings, shopdocs, now)
              ELSE get_products_marked_for_update(listings, shopdocs, now),
              LAMBDA x : x.shop = s)

C33_UnmanagedStays ==
    [][\A b \in Barcodes, s \in Shops :
        StatusIn(listings, b, s) = "unmanaged" => StatusIn(listings', b, s) = "unmanaged"]_vars

\* C34: once delete_shop has removed a storefront, no product holds a listing for its
\* domain, whatever the workers that were running for it do afterwards.
C34_NoListingOfDeletedShop ==
    \A b \in Barcodes, s \in Shops \ shopdocs : StatusIn(listings, b, s) = "none"

\* no run is in flight and no listing is waiting for, or inside, a flow
Quiescent ==
    /\ \A r \in RunIds : runs[r].kind = "idle"
    /\ \A b \in Barcodes, s \in Shops :
            StatusIn(listings, b, s) \notin {"create_pending", "create_processing",
                                             "update_pending", "update_processing"}

\* C35: in a quiescent state every created / updated listing records the cost and the
\* stock level of the product's current best supplier offer.
C35_QuiescentListingsRepriced ==
    Quiescent =>
        \A b \in Barcodes, s \in Shops :
            StatusIn(listings, b, s) \in {"created", "updated"} =>
                LET e == EntriesOf(listings[b], s)[1]
                    best == catalog[b].suppliers[get_best_supplier_for_shop(catalog[b], settings[s])]
                IN  /\ e["cost"] = best.price
                    /\ e["stock_level"] = best.stock_level

\* C32: under runs that keep being executed and time that passes, every listing in
\* create_pending or create_error eventually is created or create_fail.
C32_CreationRetriesTerminate ==
    \A b \in Barcodes, s \in Shops :
        (StatusIn(listings, b, s) \in {"create_pending", "create_error"})
            ~> (StatusIn(listings, b, s) \in {"created", "create_fail"})

\* a listing that was create_pending has failed MAX_FAIL_COUNT times, with both back-offs
\* waited for, and is create_fail
C32_Witness ==
    /\ StatusIn(listings, "p1", OtherShop) = "create_fail"
    /\ hist["p1"][OtherShop].attempts = MAX_FAIL_COUNT
    /\ now = RetryHorizon

=============================================================================
